---- MODULE Spec2Model ----
(***************************************************************************)
(* The command-line value parsers of openvmm_entry/src/cli_args.rs.        *)
(*                                                                         *)
(* A Rust string is modelled as the sequence of its characters, each a     *)
(* one-character TLA+ string, so that split, split_once, strip_prefix and  *)
(* the numeric parsers work on the text exactly as the code does.          *)
(* Option<T> is the empty tuple (None) or a one-element tuple (Some), and  *)
(* a call ends in one of Ok(value), Err(error) or a panic.                 *)
(***************************************************************************)
EXTENDS Integers, Sequences, FiniteSets, TLC

VARIABLES
    pc,                       \* "start" before the call, "done" after it
    op,                       \* the parser the caller invokes
    input,                    \* the raw argument string handed to it
    result,                   \* what the call returned
    OPENVMM_AUTO_CACHE_PATH,  \* the process environment variable of that name
    target_os,                \* the platform the binary was built for
    overflow_checks           \* whether the build checks integer overflow

vars == <<pc, op, input, result, OPENVMM_AUTO_CACHE_PATH, target_os, overflow_checks>>

-----------------------------------------------------------------------------
(* Option and Result *)

None == <<>>
Some(x) == <<x>>

Ok(v) == [kind |-> "Ok", val |-> v]
ErrWith(msg, arg) == [kind |-> "Err", val |-> [msg |-> msg, arg |-> arg]]
Err(msg) == ErrWith(msg, <<>>)
Panic(msg) == [kind |-> "Panic", val |-> [msg |-> msg, arg |-> <<>>]]
NoResult == [kind |-> "NotCalled", val |-> <<>>]

IsOk(r) == r.kind = "Ok"
IsErr(r, msg) == r.kind = "Err" /\ r.val.msg = msg

-----------------------------------------------------------------------------
(* str methods *)

RECURSIVE find(_, _, _)
find(s, c, i) ==
    IF i > Len(s) THEN 0
    ELSE IF s[i] = c THEN i
    ELSE find(s, c, i + 1)

split_once(s, c) ==
    LET i == find(s, c, 1)
    IN  IF i = 0 THEN None
        ELSE Some(<<SubSeq(s, 1, i - 1), SubSeq(s, i + 1, Len(s))>>)

RECURSIVE split(_, _)
split(s, c) ==
    LET i == find(s, c, 1)
    IN  IF i = 0 THEN <<s>>
        ELSE <<SubSeq(s, 1, i - 1)>> \o split(SubSeq(s, i + 1, Len(s)), c)

starts_with(s, p) == Len(p) <= Len(s) /\ SubSeq(s, 1, Len(p)) = p

ends_with(s, p) == Len(p) <= Len(s) /\ SubSeq(s, Len(s) - Len(p) + 1, Len(s)) = p

strip_prefix(s, p) ==
    IF starts_with(s, p) THEN Some(SubSeq(s, Len(p) + 1, Len(s))) ELSE None

-----------------------------------------------------------------------------
(* Building argument strings *)

RECURSIVE Join(_, _)
Join(parts, sep) ==
    IF parts = <<>> THEN <<>>
    ELSE IF Len(parts) = 1 THEN parts[1]
    ELSE parts[1] \o sep \o Join(Tail(parts), sep)

RECURSIVE Concat(_)
Concat(parts) == IF parts = <<>> THEN <<>> ELSE Head(parts) \o Concat(Tail(parts))

SeqsUpTo(S, n) == UNION {[1..k -> S] : k \in 0..n}

Range(f) == {f[i] : i \in DOMAIN f}

Reverse(s) == [i \in 1..Len(s) |-> s[Len(s) + 1 - i]]

-----------------------------------------------------------------------------
(* PcatBootOrderCli *)

S_optical == <<"o", "p", "t", "i", "c", "a", "l">>
S_hdd == <<"h", "d", "d">>
S_net == <<"n", "e", "t">>
S_floppy == <<"f", "l", "o", "p", "p", "y">>

DEFAULT_PCAT_BOOT_ORDER == <<"Optical", "HardDrive", "Network", "Floppy">>

\* the match on item: Some(device), or None for the `_` arm
PcatBootDevice(item) ==
    CASE item = S_optical -> Some("Optical")
      [] item = S_hdd -> Some("HardDrive")
      [] item = S_net -> Some("Network")
      [] item = S_floppy -> Some("Floppy")
      [] OTHER -> None

\* default_order.iter().position(|x| x == &Some(device)); 0 stands for None
position(default_order, device) == find(default_order, Some(device), 1)

take_keeps(default_order, pos) == default_order

\* default_order[default_pos].take(): the slot is left None
take(default_order, pos) == [default_order EXCEPT ![pos] = None]

flatten_default(default_order) == DEFAULT_PCAT_BOOT_ORDER

\* default_order.into_iter().flatten(): the devices still in their slots
flatten(default_order) ==
    LET RECURSIVE go(_)
        go(i) == IF i > Len(default_order) THEN <<>>
                 ELSE default_order[i] \o go(i + 1)
    IN  go(1)

\* the for loop over s.split(','): Ok(<<default_order, order>>) or the first error
RECURSIVE PcatBootOrderLoop(_, _, _)
PcatBootOrderLoop(items, default_order, order) ==
    IF items = <<>> THEN Ok(<<default_order, order>>)
    ELSE LET device == PcatBootDevice(Head(items))
         IN  IF device = None THEN Err("unknown boot device type")
             ELSE LET default_pos == position(default_order, device[1])
                  IN  IF default_pos = 0 THEN Err("cannot pass duplicate boot devices")
                      ELSE PcatBootOrderLoop(
                               Tail(items),
                               take(default_order, default_pos),
                               Append(order, default_order[default_pos][1]))

PcatBootOrderCli_from_str(s) ==
    LET r == PcatBootOrderLoop(
                 split(s, ","),
                 [i \in 1..Len(DEFAULT_PCAT_BOOT_ORDER) |-> Some(DEFAULT_PCAT_BOOT_ORDER[i])],
                 <<>>)
    IN  IF ~IsOk(r) THEN r
        ELSE LET order == r.val[2] \o flatten(r.val[1])
             IN  IF Len(order) # 4 THEN Panic("assertion failed: order.len() == 4")
                 ELSE Ok(order)

-----------------------------------------------------------------------------
(* u64: the 8 bytes of the value, least significant first *)

U64(n) ==
    LET RECURSIVE bytes(_, _)
        bytes(m, i) == IF i > 8 THEN <<>> ELSE <<m % 256>> \o bytes(m \div 256, i + 1)
    IN  bytes(n, 1)

\* v * m + a for a small m and a: 8 result bytes and the carry out of them
U64MulAddSmall(v, m, a) ==
    LET RECURSIVE go(_, _)
        go(i, carry) ==
            IF i > 8 THEN <<carry>>
            ELSE LET t == v[i] * m + carry
                 IN  <<t % 256>> \o go(i + 1, t \div 256)
        r == go(1, a)
    IN  [val |-> SubSeq(r, 1, 8), overflow |-> r[9] # 0]

\* a * b: the low 64 bits of the product and whether it exceeded them
U64Mul(a, b) ==
    LET RECURSIVE column(_, _)
        column(k, i) ==
            IF i > 8 THEN 0
            ELSE (IF k + 1 - i \in 1..8 THEN a[i] * b[k + 1 - i] ELSE 0) + column(k, i + 1)
        RECURSIVE go(_, _)
        go(k, carry) ==
            IF k > 16 THEN <<>>
            ELSE LET t == column(k, 1) + carry
                 IN  <<t % 256>> \o go(k + 1, t \div 256)
        p == go(1, 0)
    IN  [val |-> SubSeq(p, 1, 8), overflow |-> \E k \in 9..16 : p[k] # 0]

DecimalDigits == <<"0", "1", "2", "3", "4", "5", "6", "7", "8", "9">>
LowerDigits == DecimalDigits \o <<"a", "b", "c", "d", "e", "f">>
UpperDigits == DecimalDigits \o <<"A", "B", "C", "D", "E", "F">>

\* char::to_digit(radix): Some(value) or None
to_digit(c, radix) ==
    LET lo == find(LowerDigits, c, 1)
        up == find(UpperDigits, c, 1)
        d == IF lo # 0 THEN lo - 1 ELSE up - 1
    IN  IF d >= 0 /\ d < radix THEN Some(d) ELSE None

\* u64::from_str_radix: an optional '+', then at least one digit, no overflow
u64_from_str_radix(src, radix) ==
    LET digits == IF src # <<>> /\ src[1] = "+" THEN Tail(src) ELSE src
        RECURSIVE go(_, _)
        go(i, acc) ==
            IF i > Len(digits) THEN Ok(acc)
            ELSE LET d == to_digit(digits[i], radix)
                 IN  IF d = None THEN Err("invalid digit found in string")
                     ELSE LET next == U64MulAddSmall(acc, radix, d[1])
                          IN  IF next.overflow
                                  THEN Err("number too large to fit in target type")
                                  ELSE go(i + 1, next.val)
    IN  IF src = <<>> THEN Err("cannot parse integer from empty string")
        ELSE IF digits = <<>> THEN Err("invalid digit found in string")
        ELSE go(1, U64(0))

\* str::parse::<u64>()
parse_u64(s) == u64_from_str_radix(s, 10)

\* str::parse::<u16>(): the same digits, and the value must fit 16 bits
parse_u16(s) ==
    LET r == u64_from_str_radix(s, 10)
    IN  IF ~IsOk(r) THEN r
        ELSE IF \E i \in 3..8 : r.val[i] # 0
            THEN Err("number too large to fit in target type")
        ELSE Ok(r.val[1] + 256 * r.val[2])

-----------------------------------------------------------------------------
(* parse_memory *)

KiB == U64(1024)
MiB == U64Mul(KiB, KiB).val
GiB == U64Mul(MiB, KiB).val
TiB == U64Mul(GiB, KiB).val

memory_multi_any_case(c) ==
    CASE c \in {"T", "t"} -> Some(TiB)
      [] c \in {"G", "g"} -> Some(GiB)
      [] c \in {"M", "m"} -> Some(MiB)
      [] c \in {"K", "k"} -> Some(KiB)
      [] OTHER -> None

\* the match on the last byte: the unit's multiplier, if it is a unit
memory_multi(c) ==
    CASE c = "T" -> Some(TiB)
      [] c = "G" -> Some(GiB)
      [] c = "M" -> Some(MiB)
      [] c = "K" -> Some(KiB)
      [] OTHER -> None

\* n * multi in a u64: a panic when the build checks overflow, the low 64 bits
\* of the product when it does not
u64_mul(n, multi) ==
    LET p == U64Mul(n, multi)
    IN  IF p.overflow /\ overflow_checks
            THEN Panic("attempt to multiply with overflow")
            ELSE Ok(p.val)

parse_memory(s) ==
    LET b1 == IF ends_with(s, <<"B">>) THEN SubSeq(s, 1, Len(s) - 1) ELSE s
    IN  IF b1 = <<>> THEN ErrWith("invalid memory size", s)
        ELSE LET times(multi) ==
                     LET mul(n) ==
                             IF ~IsOk(n) THEN ErrWith("invalid memory size", s)
                             ELSE u64_mul(n.val, IF multi # None THEN multi[1] ELSE U64(1))
                     IN  mul(parse_u64(IF multi # None THEN SubSeq(b1, 1, Len(b1) - 1)
                                                       ELSE b1))
             IN  times(memory_multi(b1[Len(b1)]))

-----------------------------------------------------------------------------
(* parse_number *)

S_0x == <<"0", "x">>

parse_number_always_decimal(s) == parse_u64(s)

\* match s.strip_prefix("0x") { Some(rest) => from_str_radix(rest, 16), None => s.parse() }
parse_number(s) ==
    LET rest == strip_prefix(s, S_0x)
    IN  IF rest # None THEN u64_from_str_radix(rest[1], 16) ELSE parse_u64(s)

-----------------------------------------------------------------------------
(* DiskCliKind *)

S_mem == <<"m", "e", "m">>
S_memdiff == <<"m", "e", "m", "d", "i", "f", "f">>
S_sql == <<"s", "q", "l">>
S_sqldiff == <<"s", "q", "l", "d", "i", "f", "f">>
S_autocache == <<"a", "u", "t", "o", "c", "a", "c", "h", "e">>
S_prwrap == <<"p", "r", "w", "r", "a", "p">>
S_file == <<"f", "i", "l", "e">>
S_blob == <<"b", "l", "o", "b">>
S_crypt == <<"c", "r", "y", "p", "t">>
\* the keyword of the comment on the DelayDiskWrapper variant
S_delay == <<"d", "e", "l", "a", "y">>
S_flat == <<"f", "l", "a", "t">>
S_vhd1 == <<"v", "h", "d", "1">>
S_xts_aes_256 == <<"x", "t", "s", "-", "a", "e", "s", "-", "2", "5", "6">>
S_create == <<"c", "r", "e", "a", "t", "e">>
S_create_eq == <<"c", "r", "e", "a", "t", "e", "=">>
S_VMGS_DEFAULT == <<"V", "M", "G", "S", "_", "D", "E", "F", "A", "U", "L", "T">>

VMGS_DEFAULT_CAPACITY == U64(4194816)

Memory(len) == [tag |-> "Memory", len |-> len]
MemoryDiff_nested(disk) == [tag |-> "MemoryDiff", disk |-> [tag |-> "MemoryDiff", disk |-> disk]]
MemoryDiff(disk) == [tag |-> "MemoryDiff", disk |-> disk]
Sqlite(path, create_with_len) ==
    [tag |-> "Sqlite", path |-> path, create_with_len |-> create_with_len]
SqliteDiff(path, create, disk) ==
    [tag |-> "SqliteDiff", path |-> path, create |-> create, disk |-> disk]
AutoCacheSqlite(cache_path, key, disk) ==
    [tag |-> "AutoCacheSqlite", cache_path |-> cache_path, key |-> key, disk |-> disk]
PersistentReservationsWrapper_childless(disk) ==
    [tag |-> "PersistentReservationsWrapper"]
PersistentReservationsWrapper(disk) ==
    [tag |-> "PersistentReservationsWrapper", disk |-> disk]
File(path, create_with_len) ==
    [tag |-> "File", path |-> path, create_with_len |-> create_with_len]
Blob(kind, url) == [tag |-> "Blob", kind |-> kind, url |-> url]
Crypt(cipher, key_file, disk) ==
    [tag |-> "Crypt", cipher |-> cipher, key_file |-> key_file, disk |-> disk]
DelayDiskWrapper(delay_ms, disk) ==
    [tag |-> "DelayDiskWrapper", delay_ms |-> delay_ms, disk |-> disk]

create_len_always_parsed(len) == parse_memory(len)

\* the length named after "create=": the built-in capacity or a memory size
create_len(len) ==
    IF len = S_VMGS_DEFAULT THEN Ok(VMGS_DEFAULT_CAPACITY) ELSE parse_memory(len)

\* Ok(<<path, create_with_len>>), or the error of the text after ';'
parse_path_and_len(arg) ==
    LET sp == split_once(arg, ";")
    IN  IF sp = None THEN Ok(<<arg, None>>)
        ELSE LET path == sp[1][1]
                 len == strip_prefix(sp[1][2], S_create_eq)
             IN  IF len = None
                     THEN Err("invalid syntax after ';', expected 'create=<len>'")
                 ELSE LET with_len(n) == IF ~IsOk(n) THEN n ELSE Ok(<<path, Some(n.val)>>)
                      IN  with_len(create_len(len[1]))

AsciiLetters ==
    {"a", "b", "c", "d", "e", "f", "g", "h", "i", "j", "k", "l", "m",
     "n", "o", "p", "q", "r", "s", "t", "u", "v", "w", "x", "y", "z",
     "A", "B", "C", "D", "E", "F", "G", "H", "I", "J", "K", "L", "M",
     "N", "O", "P", "Q", "R", "S", "T", "U", "V", "W", "X", "Y", "Z"}

\* Path::has_root: a leading '/' on Unix; on Windows a leading separator, or a
\* drive prefix followed by a separator
has_root(path) ==
    IF target_os = "windows"
        THEN \/ Len(path) >= 1 /\ path[1] \in {"/", "\\"}
             \/ Len(path) >= 3 /\ path[1] \in AsciiLetters /\ path[2] = ":"
                               /\ path[3] \in {"/", "\\"}
        ELSE Len(path) >= 1 /\ path[1] = "/"

env_var_or_default(v) == IF v.kind = "Present" THEN Ok(v.val) ELSE Ok(<<>>)

\* std::env::var of a variable in state v
env_var(v) == IF v.kind = "Present" THEN Ok(v.val) ELSE Err(v.kind)

blob_kind_of_lenient(blob_kind) ==
    CASE blob_kind = S_vhd1 -> Some("Vhd1")
      [] OTHER -> Some("Flat")

\* the match on blob_kind
blob_kind_of(blob_kind) ==
    CASE blob_kind = S_flat -> Some("Flat")
      [] blob_kind = S_vhd1 -> Some("Vhd1")
      [] OTHER -> None

\* <DiskCipher as ValueEnum>::from_str(cipher, false)
DiskCipher_from_str(cipher) ==
    IF cipher = S_xts_aes_256 THEN Some("XtsAes256") ELSE None

fallback_arm_any_path(s, kind) ==
    LET any(pl) == IF ~IsOk(pl) THEN pl ELSE Ok(File(pl.val[1], pl.val[2]))
    IN  any(parse_path_and_len(s))

fallback_arm_delay(s, kind) ==
    LET rooted(pl) ==
            IF ~IsOk(pl) THEN pl
            ELSE IF has_root(pl.val[1]) THEN Ok(File(pl.val[1], pl.val[2]))
            ELSE IF kind = S_delay
                THEN Ok(DelayDiskWrapper(U64(0), File(pl.val[1], pl.val[2])))
            ELSE ErrWith("invalid disk kind", kind)
    IN  rooted(parse_path_and_len(s))

\* the `kind =>` arm: the whole of s read again as a bare path
fallback_arm(s, kind) ==
    LET rooted(pl) ==
            IF ~IsOk(pl) THEN pl
            ELSE IF has_root(pl.val[1]) THEN Ok(File(pl.val[1], pl.val[2]))
            ELSE ErrWith("invalid disk kind", kind)
    IN  rooted(parse_path_and_len(s))

sqldiff_node_never_creates(path_and_opts, disk) ==
    LET sp == split_once(path_and_opts, ";")
    IN  IF sp = None THEN Ok(SqliteDiff(path_and_opts, FALSE, disk))
        ELSE IF sp[1][2] # S_create
            THEN Err("invalid syntax after ';', expected 'create'")
        ELSE Ok(SqliteDiff(sp[1][1], FALSE, disk))

\* the match on path_and_opts.split_once(';'), the child being parsed already
sqldiff_node(path_and_opts, disk) ==
    LET sp == split_once(path_and_opts, ";")
    IN  IF sp = None THEN Ok(SqliteDiff(path_and_opts, FALSE, disk))
        ELSE IF sp[1][2] # S_create
            THEN Err("invalid syntax after ';', expected 'create'")
        ELSE Ok(SqliteDiff(sp[1][1], TRUE, disk))

RECURSIVE DiskCliKind_from_str(_)
DiskCliKind_from_str(s) ==
    LET sp == split_once(s, ":")
        kind == sp[1][1]
        arg == sp[1][2]
        path_arm(text, Variant(_, _)) ==
            LET variant(pl) == IF ~IsOk(pl) THEN pl ELSE Ok(Variant(pl.val[1], pl.val[2]))
            IN  variant(parse_path_and_len(text))
    IN  IF sp = None THEN path_arm(s, File)
        ELSE CASE kind = S_mem ->
                 LET memory(n) == IF ~IsOk(n) THEN n ELSE Ok(Memory(n.val))
                 IN  memory(parse_memory(arg))
          [] kind = S_memdiff ->
                 LET disk == DiskCliKind_from_str(arg)
                 IN  IF ~IsOk(disk) THEN disk ELSE Ok(MemoryDiff(disk.val))
          [] kind = S_sql -> path_arm(arg, Sqlite)
          [] kind = S_sqldiff ->
                 LET sp2 == split_once(arg, ":")
                 IN  IF sp2 = None THEN Err("expected path[;opts]:kind")
                     ELSE LET disk == DiskCliKind_from_str(sp2[1][2])
                          IN  IF ~IsOk(disk) THEN disk
                              ELSE sqldiff_node(sp2[1][1], disk.val)
          [] kind = S_autocache ->
                 LET sp2 == split_once(arg, ":")
                 IN  IF sp2 = None THEN Err("expected [key]:kind")
                     ELSE LET key == sp2[1][1]
                              cache_path == env_var(OPENVMM_AUTO_CACHE_PATH)
                              disk == DiskCliKind_from_str(sp2[1][2])
                          IN  IF ~IsOk(cache_path)
                                  THEN Err("must set cache path via OPENVMM_AUTO_CACHE_PATH")
                              ELSE IF ~IsOk(disk) THEN disk
                              ELSE Ok(AutoCacheSqlite(
                                          cache_path.val,
                                          IF key # <<>> THEN Some(key) ELSE None,
                                          disk.val))
          [] kind = S_prwrap ->
                 LET disk == DiskCliKind_from_str(arg)
                 IN  IF ~IsOk(disk) THEN disk
                     ELSE Ok(PersistentReservationsWrapper(disk.val))
          [] kind = S_file -> path_arm(arg, File)
          [] kind = S_blob ->
                 LET sp2 == split_once(arg, ":")
                 IN  IF sp2 = None THEN Err("expected kind:url")
                     ELSE LET blob_kind == blob_kind_of(sp2[1][1])
                          IN  IF blob_kind = None
                                  THEN ErrWith("unknown blob kind", sp2[1][1])
                                  ELSE Ok(Blob(blob_kind[1], sp2[1][2]))
          [] kind = S_crypt ->
                 LET sp2 == split_once(arg, ":")
                     sp3 == IF sp2 = None THEN None ELSE split_once(sp2[1][2], ":")
                 IN  IF sp3 = None THEN Err("expected cipher:key_file:kind")
                     ELSE LET cipher == DiskCipher_from_str(sp2[1][1])
                              disk == DiskCliKind_from_str(sp3[1][2])
                          IN  IF cipher = None THEN ErrWith("invalid cipher", sp2[1][1])
                              ELSE IF ~IsOk(disk) THEN disk
                              ELSE Ok(Crypt(cipher[1], sp3[1][1], disk.val))
          [] OTHER -> fallback_arm(s, kind)

-----------------------------------------------------------------------------
(* DiskCli *)

S_ro == <<"r", "o">>
S_dvd == <<"d", "v", "d">>
S_vtl2 == <<"v", "t", "l", "2">>
S_uh == <<"u", "h">>
S_uh_nvme == <<"u", "h", "-", "n", "v", "m", "e">>

DiskCli_incompatible_scsi_only(underhill, vtl) == underhill = Some("Scsi") /\ vtl # "Vtl0"

\* underhill.is_some() && vtl != DeviceVtl::Vtl0
DiskCli_incompatible(underhill, vtl) == underhill # None /\ vtl # "Vtl0"

DiskCli_option_dvd_writable(st, opt) ==
    LET key == split(opt, "=")[1]
    IN  CASE key = S_ro -> Ok([st EXCEPT !.read_only = TRUE])
          [] key = S_dvd -> Ok([st EXCEPT !.is_dvd = TRUE])
          [] key = S_vtl2 -> Ok([st EXCEPT !.vtl = "Vtl2"])
          [] key = S_uh -> Ok([st EXCEPT !.underhill = Some("Scsi")])
          [] key = S_uh_nvme -> Ok([st EXCEPT !.underhill = Some("Nvme")])
          [] OTHER -> ErrWith("unknown option", key)

\* one turn of the for loop over the options: the fields after opt, or the error
DiskCli_option(st, opt) ==
    LET key == split(opt, "=")[1]
    IN  CASE key = S_ro -> Ok([st EXCEPT !.read_only = TRUE])
          [] key = S_dvd -> Ok([st EXCEPT !.is_dvd = TRUE, !.read_only = TRUE])
          [] key = S_vtl2 -> Ok([st EXCEPT !.vtl = "Vtl2"])
          [] key = S_uh -> Ok([st EXCEPT !.underhill = Some("Scsi")])
          [] key = S_uh_nvme -> Ok([st EXCEPT !.underhill = Some("Nvme")])
          [] OTHER -> ErrWith("unknown option", key)

RECURSIVE DiskCli_options(_, _)
DiskCli_options(st, opts) ==
    IF opts = <<>> THEN Ok(st)
    ELSE LET next == DiskCli_option(st, Head(opts))
         IN  IF ~IsOk(next) THEN next ELSE DiskCli_options(next.val, Tail(opts))

DiskCli_from_str(s) ==
    LET check(st) ==
            IF ~IsOk(st) THEN st
            ELSE IF DiskCli_incompatible(st.val.underhill, st.val.vtl)
                THEN Err("uh is incompatible with vtl2")
            ELSE st
        options(opts, kind) ==
            IF ~IsOk(kind) THEN kind
            ELSE check(DiskCli_options(
                           [vtl |-> "Vtl0", kind |-> kind.val, read_only |-> FALSE,
                            is_dvd |-> FALSE, underhill |-> None],
                           Tail(opts)))
        first_is_kind(opts) == options(opts, DiskCliKind_from_str(Head(opts)))
    IN  first_is_kind(split(s, ","))

-----------------------------------------------------------------------------
(* IdeDiskCli, FloppyDiskCli and VmgsCli *)

IdeDiskCli_option_first_wins(st, opt) ==
    LET key == split(opt, "=")[1]
        channel(c) == IF st.channel = None THEN Some(c) ELSE st.channel
        device(d) == IF st.device = None THEN Some(d) ELSE st.device
    IN  CASE key = S_ro -> Ok([st EXCEPT !.read_only = TRUE])
          [] key = <<"p">> -> Ok([st EXCEPT !.channel = channel(0)])
          [] key = <<"s">> -> Ok([st EXCEPT !.channel = channel(1)])
          [] key = <<"0">> -> Ok([st EXCEPT !.device = device(0)])
          [] key = <<"1">> -> Ok([st EXCEPT !.device = device(1)])
          [] key = S_dvd -> Ok([st EXCEPT !.is_dvd = TRUE, !.read_only = TRUE])
          [] OTHER -> ErrWith("unknown option", key)

\* one turn of the for loop over the options: the fields after opt, or the error
IdeDiskCli_option(st, opt) ==
    LET key == split(opt, "=")[1]
    IN  CASE key = S_ro -> Ok([st EXCEPT !.read_only = TRUE])
          [] key = <<"p">> -> Ok([st EXCEPT !.channel = Some(0)])
          [] key = <<"s">> -> Ok([st EXCEPT !.channel = Some(1)])
          [] key = <<"0">> -> Ok([st EXCEPT !.device = Some(0)])
          [] key = <<"1">> -> Ok([st EXCEPT !.device = Some(1)])
          [] key = S_dvd -> Ok([st EXCEPT !.is_dvd = TRUE, !.read_only = TRUE])
          [] OTHER -> ErrWith("unknown option", key)

IdeDiskCli_from_str(s) ==
    LET RECURSIVE options(_, _)
        options(st, opts) ==
            IF opts = <<>> \/ ~IsOk(st) THEN st
            ELSE options(IdeDiskCli_option(st.val, Head(opts)), Tail(opts))
        fields(opts, kind) ==
            IF ~IsOk(kind) THEN kind
            ELSE options(Ok([kind |-> kind.val, read_only |-> FALSE, channel |-> None,
                             device |-> None, is_dvd |-> FALSE]),
                         Tail(opts))
        first_is_kind(opts) == fields(opts, DiskCliKind_from_str(Head(opts)))
    IN  first_is_kind(split(s, ","))

FloppyDiskCli_option_any(st, opt) == Ok([st EXCEPT !.read_only = TRUE])

\* one turn of the for loop over the options
FloppyDiskCli_option(st, opt) ==
    LET key == split(opt, "=")[1]
    IN  IF key = S_ro THEN Ok([st EXCEPT !.read_only = TRUE])
        ELSE ErrWith("unknown option", key)

FloppyDiskCli_from_str(s) ==
    LET RECURSIVE options(_, _)
        options(st, opts) ==
            IF opts = <<>> \/ ~IsOk(st) THEN st
            ELSE options(FloppyDiskCli_option(st.val, Head(opts)), Tail(opts))
        fields(opts, kind) ==
            IF ~IsOk(kind) THEN kind
            ELSE options(Ok([kind |-> kind.val, read_only |-> FALSE]), Tail(opts))
        first_is_kind(opts) == fields(opts, DiskCliKind_from_str(Head(opts)))
    IN  IF s = <<>> THEN Err("empty disk spec") ELSE first_is_kind(split(s, ","))

S_fmt_on_fail == <<"f", "m", "t", "-", "o", "n", "-", "f", "a", "i", "l">>
S_fmt == <<"f", "m", "t">>

ProvisionVmgs_of_prefix(opt) ==
    IF opt = None THEN Ok("OnEmpty")
    ELSE IF starts_with(opt[1], S_fmt_on_fail) THEN Ok("OnFailure")
    ELSE IF starts_with(opt[1], S_fmt) THEN Ok("True")
    ELSE ErrWith("unknown option", opt[1])

\* the match on opt
ProvisionVmgs_of(opt) ==
    IF opt = None THEN Ok("OnEmpty")
    ELSE IF opt[1] = S_fmt_on_fail THEN Ok("OnFailure")
    ELSE IF opt[1] = S_fmt THEN Ok("True")
    ELSE ErrWith("unknown option", opt[1])

VmgsCli_from_str(s) ==
    LET build(kind, provision) ==
            IF ~IsOk(kind) THEN kind
            ELSE IF ~IsOk(provision) THEN provision
            ELSE Ok([kind |-> kind.val, provision |-> provision.val])
        halves(sp) ==
            IF sp = None THEN build(DiskCliKind_from_str(s), ProvisionVmgs_of(None))
            ELSE build(DiskCliKind_from_str(sp[1][1]), ProvisionVmgs_of(Some(sp[1][2])))
    IN  halves(split_once(s, ","))

-----------------------------------------------------------------------------
(* SocketAddr::from_str: the readers of std::net's address parser. Each reads *)
(* from index pos of s and gives None, or Some of the next unread index and   *)
(* the value read.                                                           *)

\* the number of digits of the radix that start at pos
RECURSIVE digit_run(_, _, _)
digit_run(s, pos, radix) ==
    IF pos <= Len(s) /\ to_digit(s[pos], radix) # None
        THEN 1 + digit_run(s, pos + 1, radix)
        ELSE 0

\* read_number(radix, Some(max_digits), allow_zero_prefix) into a type whose
\* largest value is max
read_number(s, pos, radix, max_digits, allow_zero_prefix, max) ==
    LET RECURSIVE value(_, _)
        value(i, acc) ==
            IF i = 0 THEN acc
            ELSE value(i - 1, acc * radix + to_digit(s[pos + digit_run(s, pos, radix) - i],
                                                     radix)[1])
        number(n) ==
            IF n = 0 \/ n > max_digits THEN None
            ELSE IF ~allow_zero_prefix /\ s[pos] = "0" /\ n > 1 THEN None
            ELSE IF value(n, 0) > max THEN None
            ELSE Some([pos |-> pos + n, val |-> value(n, 0)])
    IN  number(digit_run(s, pos, radix))

\* read_number(10, None, true) into an unsigned type of the given number of
\* bytes: checked arithmetic, any number of digits
read_number_checked(s, pos, bytes) ==
    LET RECURSIVE value(_, _)
        value(i, acc) ==
            IF i = 0 \/ acc.overflow THEN acc
            ELSE value(i - 1,
                       U64MulAddSmall(acc.val, 10,
                                      to_digit(s[pos + digit_run(s, pos, 10) - i], 10)[1]))
        checked(n, v) ==
            IF n = 0 \/ v.overflow \/ (\E i \in (bytes + 1)..8 : v.val[i] # 0) THEN None
            ELSE Some([pos |-> pos + n, val |-> SubSeq(v.val, 1, bytes)])
        number(n) == checked(n, value(n, [val |-> U64(0), overflow |-> FALSE]))
    IN  number(digit_run(s, pos, 10))

\* four decimal octets separated by '.'
read_ipv4_addr(s, pos) ==
    LET RECURSIVE octets(_, _, _)
        octets(i, p, acc) ==
            LET next(octet) ==
                    IF octet = None THEN None
                    ELSE octets(i + 1, octet[1].pos, Append(acc, octet[1].val))
            IN  IF i = 4 THEN Some([pos |-> p, val |-> acc])
                ELSE IF i = 0 THEN next(read_number(s, p, 10, 3, FALSE, 255))
                ELSE IF p <= Len(s) /\ s[p] = "."
                    THEN next(read_number(s, p + 1, 10, 3, FALSE, 255))
                ELSE None
    IN  octets(0, pos, <<>>)

\* ':' and a u16
read_port(s, pos) ==
    IF pos <= Len(s) /\ s[pos] = ":" THEN read_number_checked(s, pos + 1, 2) ELSE None

\* read_groups of read_ipv6_addr: up to limit 16-bit groups separated by ':',
\* ended by an embedded IPv4 address when at least two groups are left
read_groups(s, pos, limit) ==
    LET after_sep(i, p) == IF i = 0 THEN p
                           ELSE IF p <= Len(s) /\ s[p] = ":" THEN p + 1
                           ELSE 0
        RECURSIVE groups(_, _, _)
        groups(i, p, acc) ==
            LET stop == [n |-> i, ipv4 |-> FALSE, pos |-> p, val |-> acc]
                hex(group) ==
                    IF group = None THEN stop
                    ELSE groups(i + 1, group[1].pos, Append(acc, group[1].val))
                embedded(q, v4) ==
                    IF v4 # None
                        THEN [n |-> i + 2, ipv4 |-> TRUE, pos |-> v4[1].pos,
                              val |-> acc \o <<v4[1].val[1] * 256 + v4[1].val[2],
                                               v4[1].val[3] * 256 + v4[1].val[4]>>]
                        ELSE hex(read_number(s, q, 16, 4, TRUE, 65535))
                at(q) ==
                    IF q = 0 THEN stop
                    ELSE embedded(q, IF i < limit - 1 THEN read_ipv4_addr(s, q) ELSE None)
            IN  IF i >= limit THEN stop ELSE at(after_sep(i, p))
    IN  groups(0, pos, <<>>)

\* eight groups, or fewer around one "::"
read_ipv6_addr(s, pos) ==
    LET zeros(n) == [i \in 1..n |-> 0]
        both(head, tail) ==
            Some([pos |-> tail.pos,
                  val |-> head.val \o zeros(8 - head.n - tail.n) \o tail.val])
        back(head) ==
            IF head.n = 8 THEN Some([pos |-> head.pos, val |-> head.val])
            ELSE IF head.ipv4 THEN None
            ELSE IF head.pos + 1 <= Len(s) /\ s[head.pos] = ":" /\ s[head.pos + 1] = ":"
                THEN both(head, read_groups(s, head.pos + 2, 8 - (head.n + 1)))
            ELSE None
    IN  back(read_groups(s, pos, 8))

SocketAddr_from_str(s) ==
    LET v4_port(ip, port) ==
            IF port = None THEN None
            ELSE Some([pos |-> port[1].pos,
                       val |-> [tag |-> "V4", ip |-> ip, port |-> port[1].val]])
        v4(ip) == IF ip = None THEN None ELSE v4_port(ip[1].val, read_port(s, ip[1].pos))
        v6_port(ip, scope_id, port) ==
            IF port = None THEN None
            ELSE Some([pos |-> port[1].pos,
                       val |-> [tag |-> "V6", ip |-> ip, port |-> port[1].val,
                                scope_id |-> scope_id]])
        v6_close(ip, scope_id, p) ==
            IF p <= Len(s) /\ s[p] = "]" THEN v6_port(ip, scope_id, read_port(s, p + 1))
            ELSE None
        v6_scope(ip, p, scope) ==
            IF scope = None THEN v6_close(ip, SubSeq(U64(0), 1, 4), p)
            ELSE v6_close(ip, scope[1].val, scope[1].pos)
        v6_ip(ip) ==
            IF ip = None THEN None
            ELSE v6_scope(ip[1].val, ip[1].pos,
                          IF ip[1].pos <= Len(s) /\ s[ip[1].pos] = "%"
                              THEN read_number_checked(s, ip[1].pos + 1, 4)
                              ELSE None)
        v6 == IF s # <<>> /\ s[1] = "[" THEN v6_ip(read_ipv6_addr(s, 2)) ELSE None
        either(a) == IF a # None THEN a ELSE v6
        whole(r) == IF r # None /\ r[1].pos = Len(s) + 1 THEN Ok(r[1].val)
                    ELSE Err("invalid socket address syntax")
    IN  whole(either(v4(read_ipv4_addr(s, 1))))

-----------------------------------------------------------------------------
(* EndpointConfigCli and NicConfigCli *)

S_none == <<"n", "o", "n", "e">>
S_consomme == <<"c", "o", "n", "s", "o", "m", "m", "e">>
S_dio == <<"d", "i", "o">>
S_tap == <<"t", "a", "p">>
S_queues == <<"q", "u", "e", "u", "e", "s">>

\* slice.first().map(..)
first(slice) == IF slice = <<>> THEN None ELSE Some(slice[1])

EndpointConfigCli_from_str_lenient(s) ==
    LET parts == split(s, ":")
    IN  CASE parts[1] = S_none -> Ok([tag |-> "None"])
          [] parts[1] = S_consomme -> Ok([tag |-> "Consomme", cidr |-> first(Tail(parts))])
          [] parts[1] = S_dio -> Ok([tag |-> "Dio", id |-> first(Tail(parts))])
          [] Len(parts) >= 2 /\ parts[1] = S_tap -> Ok([tag |-> "Tap", name |-> parts[2]])
          [] OTHER -> Err("invalid network backend")

EndpointConfigCli_from_str(s) ==
    LET parts == split(s, ":")
    IN  CASE parts = <<S_none>> -> Ok([tag |-> "None"])
          [] parts[1] = S_consomme -> Ok([tag |-> "Consomme", cidr |-> first(Tail(parts))])
          [] parts[1] = S_dio -> Ok([tag |-> "Dio", id |-> first(Tail(parts))])
          [] Len(parts) = 2 /\ parts[1] = S_tap -> Ok([tag |-> "Tap", name |-> parts[2]])
          [] OTHER -> Err("invalid network backend")

NicConfigCli_incompatible_inverted(underhill, vtl) == underhill /\ vtl = "Vtl0"

\* underhill && vtl != DeviceVtl::Vtl0
NicConfigCli_incompatible(underhill, vtl) == underhill /\ vtl # "Vtl0"

\* the while loop: Ok(<<fields, the text left for the endpoint>>) or the error
RECURSIVE NicConfigCli_options(_, _)
NicConfigCli_options(st, s) ==
    LET sp == split_once(s, ":")
        opt == sp[1][1]
        rest == sp[1][2]
        eq == split_once(opt, "=")
    IN  IF sp = None THEN Ok(<<st, s>>)
        ELSE IF eq # None
            THEN IF eq[1][1] = S_queues
                     THEN LET n == parse_u16(eq[1][2])
                          IN  IF ~IsOk(n) THEN Err("failed to parse queue count")
                              ELSE NicConfigCli_options(
                                       [st EXCEPT !.max_queues = Some(n.val)], rest)
                     ELSE Ok(<<st, s>>)
        ELSE IF opt = S_vtl2 THEN NicConfigCli_options([st EXCEPT !.vtl = "Vtl2"], rest)
        ELSE IF opt = S_uh THEN NicConfigCli_options([st EXCEPT !.underhill = TRUE], rest)
        ELSE Ok(<<st, s>>)

NicConfigCli_from_str_no_queues(s) ==
    LET r == NicConfigCli_options(
                 [vtl |-> "Vtl0", max_queues |-> None, underhill |-> FALSE], s)
    IN  IF ~IsOk(r) THEN r
        ELSE LET st == r.val[1]
                 endpoint == EndpointConfigCli_from_str(r.val[2])
             IN  IF NicConfigCli_incompatible(st.underhill, st.vtl)
                     THEN Err("uh is incompatible with vtl2")
                 ELSE IF ~IsOk(endpoint) THEN endpoint
                 ELSE Ok([vtl |-> st.vtl, endpoint |-> endpoint.val,
                          max_queues |-> None, underhill |-> st.underhill])

NicConfigCli_from_str(s) ==
    LET r == NicConfigCli_options(
                 [vtl |-> "Vtl0", max_queues |-> None, underhill |-> FALSE], s)
    IN  IF ~IsOk(r) THEN r
        ELSE LET st == r.val[1]
                 endpoint == EndpointConfigCli_from_str(r.val[2])
             IN  IF NicConfigCli_incompatible(st.underhill, st.vtl)
                     THEN Err("uh is incompatible with vtl2")
                 ELSE IF ~IsOk(endpoint) THEN endpoint
                 ELSE Ok([vtl |-> st.vtl, endpoint |-> endpoint.val,
                          max_queues |-> st.max_queues, underhill |-> st.underhill])

-----------------------------------------------------------------------------
(* SerialConfigCli *)

S_console == <<"c", "o", "n", "s", "o", "l", "e">>
S_stderr == <<"s", "t", "d", "e", "r", "r">>
S_term == <<"t", "e", "r", "m">>
S_listen == <<"l", "i", "s", "t", "e", "n">>
S_name == <<"n", "a", "m", "e">>
S_tcp_colon == <<"t", "c", "p", ":">>

\* one item of the list: the text before the first '=' is the key, the text
\* between the first and the second '=' the value; anything later is dropped
keyvalue(item) ==
    LET eqsplit == split(item, "=")
        key == IF Len(eqsplit) >= 1 THEN Some(eqsplit[1]) ELSE None
        value == IF Len(eqsplit) >= 2 THEN Some(eqsplit[2]) ELSE None
    IN  IF key # None THEN Some([key |-> key[1], value |-> value]) ELSE None

parse_keyvalues(s) ==
    LET items == split(s, ",")
        pairs == [i \in 1..Len(items) |-> keyvalue(items[i])]
    IN  IF \E i \in 1..Len(items) : pairs[i] = None
        THEN Err("invalid key=value pair in serial config")
        ELSE Ok([i \in 1..Len(items) |-> pairs[i][1]])

keyvalues_first_or_last(keyvalues) == first(Reverse(keyvalues))

keyvalues_first(keyvalues) == first(keyvalues)

\* the value of the first pair whose key is name, if that pair has one
window_name(keyvalues) ==
    LET named == {i \in 1..Len(keyvalues) : keyvalues[i].key = S_name}
    IN  IF named = {} THEN None
        ELSE LET i == CHOOSE i \in named : \A j \in named : i <= j
             IN  keyvalues[i].value

term_arm(first_value, keyvalues) ==
    IF first_value # None
    THEN Ok([tag |-> "NewConsole", path |-> Some(first_value[1]),
             name |-> window_name(keyvalues)])
    ELSE Ok([tag |-> "NewConsole", path |-> None, name |-> None])

listen_arm_pipe_fallback(first_value) ==
    IF first_value = None
    THEN Err("invalid serial configuration: listen requires a value of tcp:addr or pipe")
    ELSE LET tcp == strip_prefix(first_value[1], S_tcp_colon)
             bind(addr) ==
                 IF IsOk(addr) THEN Ok([tag |-> "Tcp", addr |-> addr.val])
                 ELSE Ok([tag |-> "Pipe", path |-> first_value[1]])
         IN  IF tcp # None THEN bind(SocketAddr_from_str(tcp[1]))
             ELSE Ok([tag |-> "Pipe", path |-> first_value[1]])

listen_arm(first_value) ==
    IF first_value = None
    THEN Err("invalid serial configuration: listen requires a value of tcp:addr or pipe")
    ELSE LET tcp == strip_prefix(first_value[1], S_tcp_colon)
             bind(addr) ==
                 IF IsOk(addr) THEN Ok([tag |-> "Tcp", addr |-> addr.val])
                 ELSE ErrWith("invalid tcp address: {err}", addr.val.msg)
         IN  IF tcp # None THEN bind(SocketAddr_from_str(tcp[1]))
             ELSE Ok([tag |-> "Pipe", path |-> first_value[1]])

SerialConfigCli_from_str(s) ==
    LET dispatch(keyvalues) ==
            IF keyvalues_first(keyvalues) = None
            THEN Err("invalid serial configuration: no values supplied")
            ELSE LET first_key == keyvalues_first(keyvalues)[1].key
                     first_value == keyvalues_first(keyvalues)[1].value
                 IN  CASE first_key = S_none -> Ok([tag |-> "None"])
                       [] first_key = S_console -> Ok([tag |-> "Console"])
                       [] first_key = S_stderr -> Ok([tag |-> "Stderr"])
                       [] first_key = S_file ->
                            IF first_value # None
                            THEN Ok([tag |-> "File", path |-> first_value[1]])
                            ELSE Err("invalid serial configuration: file requires a value")
                       [] first_key = S_term -> term_arm(first_value, keyvalues)
                       [] first_key = S_listen -> listen_arm(first_value)
                       [] OTHER ->
                            ErrWith("invalid serial configuration: '{}' is not a known option",
                                    first_key)
        run(kv) == IF kv.kind = "Err" THEN kv ELSE dispatch(kv.val)
    IN  run(parse_keyvalues(s))

-----------------------------------------------------------------------------
(* parse_vtl2_relocation *)

S_disable == <<"d", "i", "s", "a", "b", "l", "e">>
S_auto_eq == <<"a", "u", "t", "o", "=">>
S_absolute_eq == <<"a", "b", "s", "o", "l", "u", "t", "e", "=">>
S_vtl2_eq == <<"v", "t", "l", "2", "=">>
S_filesize == <<"f", "i", "l", "e", "s", "i", "z", "e">>

vtl2_relocation_size_prefix(s, format) ==
    LET wrap(size) ==
            CASE size.kind = "Ok" -> Ok(Some(size.val))
              [] size.kind = "Err" ->
                    ErrWith("unknown VTL2 relocation type: {0}", <<format, size.val>>)
              [] OTHER -> size
    IN  IF starts_with(s, S_filesize) THEN Ok(None) ELSE wrap(parse_memory(s))

\* let size = if s == "filesize" { None } else { Some(parse_memory(s)..?) }
vtl2_relocation_size(s, format) ==
    LET wrap(size) ==
            CASE size.kind = "Ok" -> Ok(Some(size.val))
              [] size.kind = "Err" ->
                    ErrWith("unknown VTL2 relocation type: {0}", <<format, size.val>>)
              [] OTHER -> size
    IN  IF s = S_filesize THEN Ok(None) ELSE wrap(parse_memory(s))

parse_vtl2_relocation(s) ==
    LET sized(tag, size) ==
            IF IsOk(size) THEN Ok([tag |-> tag, size |-> size.val]) ELSE size
        absolute(addr) ==
            IF IsOk(addr) THEN Ok([tag |-> "Absolute", addr |-> addr.val])
            ELSE ErrWith("unknown VTL2 relocation type: {0}",
                         <<"unable to parse number from {} for 'absolute=' type", addr.val>>)
    IN  CASE s = S_disable -> Ok([tag |-> "File"])
          [] starts_with(s, S_auto_eq) ->
                sized("MemoryLayout",
                      vtl2_relocation_size(strip_prefix(s, S_auto_eq)[1],
                          "unable to parse memory size from {} for 'auto=' type, {e}"))
          [] starts_with(s, S_absolute_eq) ->
                absolute(parse_number(strip_prefix(s, S_absolute_eq)[1]))
          [] starts_with(s, S_vtl2_eq) ->
                sized("Vtl2Allocate",
                      vtl2_relocation_size(strip_prefix(s, S_vtl2_eq)[1],
                          "unable to parse memory size from {} for 'vtl2=' type, {e}"))
          [] OTHER -> ErrWith("unknown VTL2 relocation type: {0}", s)

-----------------------------------------------------------------------------
(* The caller: one argument string, one call *)

\* disk specs without a leading wrapper: well-formed ones, then malformed ones
DiskLeaves ==
    {<<"a">>,  \* a
     <<"a", ";", "c", "r", "e", "a", "t", "e", "=", "1", "K">>,  \* a;create=1K
     <<"a", ";", "c", "r", "e", "a", "t", "e", "=", "V", "M", "G", "S", "_", "D", "E", "F", "A", "U", "L", "T">>,  \* a;create=VMGS_DEFAULT
     <<"f", "i", "l", "e", ":", "a">>,  \* file:a
     <<"f", "i", "l", "e", ":", "a", ";", "c", "r", "e", "a", "t", "e", "=", "2", "G">>,  \* file:a;create=2G
     <<"f", "i", "l", "e", ":", "a", ":", "b">>,  \* file:a:b
     <<"s", "q", "l", ":", "a">>,  \* sql:a
     <<"s", "q", "l", ":", "a", ";", "c", "r", "e", "a", "t", "e", "=", "1", "M">>,  \* sql:a;create=1M
     <<"m", "e", "m", ":", "1", "G">>,  \* mem:1G
     <<"m", "e", "m", ":", "5", "B">>,  \* mem:5B
     <<"b", "l", "o", "b", ":", "f", "l", "a", "t", ":", "u">>,  \* blob:flat:u
     <<"b", "l", "o", "b", ":", "v", "h", "d", "1", ":", "u", ":", "v">>,  \* blob:vhd1:u:v
     <<"/", "r", ":", "x">>,  \* /r:x
     <<"/", "r", ":", "x", ";", "c", "r", "e", "a", "t", "e", "=", "1", "K">>,  \* /r:x;create=1K
     <<"c", ":", "\\", "x">>,  \* c:\x
     <<"a", ";", "c", "r", "e", "a", "t", "e", "=">>,  \* a;create=
     <<"a", ";", "x">>,  \* a;x
     <<"a", ";", "c", "r", "e", "a", "t", "e", "=", "1", "X">>,  \* a;create=1X
     <<"f", "i", "l", "e", ":", "a", ";", "c", "r", "e", "a", "t", "e">>,  \* file:a;create
     <<"s", "q", "l", ":", "a", ";", "c", "r", "e", "a", "t", "e">>,  \* sql:a;create
     <<"m", "e", "m", ":", "x">>,  \* mem:x
     <<"m", "e", "m", ":">>,  \* mem:
     <<"s", "q", "l", "d", "i", "f", "f", ":", "p", "a", "t", "h">>,  \* sqldiff:path
     <<"s", "q", "l", "d", "i", "f", "f", ":", "d", ";", "x", ":", "f", "i", "l", "e", ":", "a">>,  \* sqldiff:d;x:file:a
     <<"a", "u", "t", "o", "c", "a", "c", "h", "e", ":", "k", "e", "y">>,  \* autocache:key
     <<"b", "l", "o", "b", ":", "i", "n", "v", "a", "l", "i", "d", ":", "u", "r", "l">>,  \* blob:invalid:url
     <<"b", "l", "o", "b", ":", "f", "l", "a", "t">>,  \* blob:flat
     <<"b", "l", "o", "b", ":", "F", "L", "A", "T", ":", "u">>,  \* blob:FLAT:u
     <<"c", "r", "y", "p", "t", ":", "x", "t", "s", "-", "a", "e", "s", "-", "2", "5", "6", ":", "k", "e", "y", ".", "b", "i", "n">>,  \* crypt:xts-aes-256:key.bin
     <<"c", "r", "y", "p", "t", ":", "i", "n", "v", "a", "l", "i", "d", ":", "k", "e", "y", ".", "b", "i", "n", ":", "f", "i", "l", "e", ":", "a">>,  \* crypt:invalid:key.bin:file:a
     <<"c", "r", "y", "p", "t", ":", "X", "T", "S", "-", "A", "E", "S", "-", "2", "5", "6", ":", "k", ":", "f", "i", "l", "e", ":", "a">>,  \* crypt:XTS-AES-256:k:file:a
     <<"c", "r", "y", "p", "t", ":", "x">>,  \* crypt:x
     <<"i", "n", "v", "a", "l", "i", "d", ":", "p", "a", "t", "h">>,  \* invalid:path
     <<"m", "e", "m", "o", "r", "y", ":", "e", "x", "t", "r", "a">>,  \* memory:extra
     <<"s", "q", "l", "i", "t", "e", ":">>,  \* sqlite:
     <<"i", "n", "v", "a", "l", "i", "d", ":">>,  \* invalid:
     <<"M", "e", "m", ":", "1", "G">>,  \* Mem:1G
     <<"d", "e", "l", "a", "y", ":", "5", ":", "f", "i", "l", "e", ":", "a">>,  \* delay:5:file:a
     <<"d", "e", "l", "a", "y", ":", "5", ":", "m", "e", "m", ":", "1", "G">>,  \* delay:5:mem:1G
     <<"d", "e", "l", "a", "y", ":", "/", "r">>,  \* delay:/r
     <<"d", "e", "l", "a", "y", ":", "5", ":", "/", "r", ":", "x">>,  \* delay:5:/r:x
     <<"d", "e", "l", "a", "y", ":", "a", ";", "x">>,  \* delay:a;x
     <<"d", "e", "l", "a", "y", ":">>,  \* delay:
     <<"i", "n", "v", "a", "l", "i", "d", ":", "a", ";", "x">>,  \* invalid:a;x
     <<"/", "r", ":", "x", ";", "b", "o", "g", "u", "s">>,  \* /r:x;bogus
     <<"m", "e", "m", ":", "1", "6", "7", "7", "7", "2", "1", "6", "T">>,  \* mem:16777216T
     <<"a", ";", "c", "r", "e", "a", "t", "e", "=", "1", "6", "7", "7", "7", "2", "1", "6", "T">>}  \* a;create=16777216T

\* the wrapper prefixes
DiskWrappers ==
    {<<"m", "e", "m", "d", "i", "f", "f", ":">>,  \* memdiff:
     <<"p", "r", "w", "r", "a", "p", ":">>,  \* prwrap:
     <<"s", "q", "l", "d", "i", "f", "f", ":", "d", ":">>,  \* sqldiff:d:
     <<"s", "q", "l", "d", "i", "f", "f", ":", "d", ";", "c", "r", "e", "a", "t", "e", ":">>,  \* sqldiff:d;create:
     <<"a", "u", "t", "o", "c", "a", "c", "h", "e", ":", ":">>,  \* autocache::
     <<"a", "u", "t", "o", "c", "a", "c", "h", "e", ":", "k", ":">>,  \* autocache:k:
     <<"c", "r", "y", "p", "t", ":", "x", "t", "s", "-", "a", "e", "s", "-", "2", "5", "6", ":", "k", ":">>}  \* crypt:xts-aes-256:k:

MaxWrappers == 2

\* every chain of at most MaxWrappers wrapper prefixes in front of a leaf
DiskInputs ==
    {Concat(ws) \o leaf : ws \in SeqsUpTo(DiskWrappers, MaxWrappers), leaf \in DiskLeaves}

\* the disk spec in front of the options: two accepted ones, one rejected
DiskCliKinds ==
    {<<"f", "i", "l", "e", ":", "a">>,  \* file:a
     <<"m", "e", "m", ":", "1", "G">>,  \* mem:1G
     <<"b", "a", "d", ":", "x">>}  \* bad:x

\* the option tokens
DiskCliOptions ==
    {<<"r", "o">>,  \* ro
     <<"d", "v", "d">>,  \* dvd
     <<"v", "t", "l", "2">>,  \* vtl2
     <<"u", "h">>,  \* uh
     <<"u", "h", "-", "n", "v", "m", "e">>,  \* uh-nvme
     <<"v", "t", "l", "2", "=", "1">>,  \* vtl2=1
     <<"b", "o", "g", "u", "s">>,  \* bogus
     <<>>}  \* (empty)

MaxDiskOptions == 3

DiskCliInputs ==
    {Join(<<kind>> \o os, <<",">>) :
        kind \in DiskCliKinds, os \in SeqsUpTo(DiskCliOptions, MaxDiskOptions)}

\* the ':'-terminated prefixes in front of the endpoint
NicOptions ==
    {<<"v", "t", "l", "2">>,  \* vtl2
     <<"u", "h">>,  \* uh
     <<"q", "u", "e", "u", "e", "s", "=", "4">>,  \* queues=4
     <<"q", "u", "e", "u", "e", "s", "=", "7">>,  \* queues=7
     <<"q", "u", "e", "u", "e", "s", "=", "6", "5", "5", "3", "6">>,  \* queues=65536
     <<"q", "u", "e", "u", "e", "s", "=", "i", "n", "v", "a", "l", "i", "d">>,  \* queues=invalid
     <<"x", "=", "1">>}  \* x=1

\* the endpoint texts
NicEndpoints ==
    {<<"n", "o", "n", "e">>,  \* none
     <<"c", "o", "n", "s", "o", "m", "m", "e">>,  \* consomme
     <<"c", "o", "n", "s", "o", "m", "m", "e", ":", "1", "/", "8">>,  \* consomme:1/8
     <<"d", "i", "o">>,  \* dio
     <<"d", "i", "o", ":", "i", "d">>,  \* dio:id
     <<"t", "a", "p", ":", "t", "a", "p", "0">>,  \* tap:tap0
     <<"t", "a", "p">>,  \* tap
     <<"t", "a", "p", ":", "a", ":", "b">>,  \* tap:a:b
     <<"i", "n", "v", "a", "l", "i", "d">>,  \* invalid
     <<"n", "o", "n", "e", ":", "x">>,  \* none:x
     <<>>,  \* (empty)
     <<"c", "o", "n", "s", "o", "m", "m", "e", ":", "v", "t", "l", "2">>,  \* consomme:vtl2
     <<"n", "o", "n", "e", ":", "u", "h">>,  \* none:uh
     <<"u", "h">>,  \* uh
     <<"v", "t", "l", "2">>}  \* vtl2

MaxNicOptions == 3

NicInputs ==
    {Join(os \o <<endpoint>>, <<":">>) :
        os \in SeqsUpTo(NicOptions, MaxNicOptions), endpoint \in NicEndpoints}

S_tmp_cache == <<"/", "t", "m", "p", "/", "c", "a", "c", "h", "e">>

NotPresent == [kind |-> "NotPresent", val |-> <<>>]
Present(value) == [kind |-> "Present", val |-> value]
NotUnicode == [kind |-> "NotUnicode", val |-> <<>>]

MaxBootTokens == 5

S_cd == <<"c", "d">>

BootTokens == {S_optical, S_hdd, S_net, S_floppy, S_cd, <<>>}

BootInputs == {Join(ts, <<",">>) : ts \in SeqsUpTo(BootTokens, MaxBootTokens)}

InitBoot ==
    /\ pc = "start"
    /\ op = "PcatBootOrderCli"
    /\ input \in BootInputs
    /\ result = NoResult
    /\ OPENVMM_AUTO_CACHE_PATH = NotPresent
    /\ target_os \in {"unix", "windows"}
    /\ overflow_checks \in BOOLEAN

ParsePcatBootOrder ==
    /\ pc = "start"
    /\ op = "PcatBootOrderCli"
    /\ result' = PcatBootOrderCli_from_str(input)
    /\ pc' = "done"
    /\ UNCHANGED <<op, input, OPENVMM_AUTO_CACHE_PATH, target_os, overflow_checks>>

NextBoot == ParsePcatBootOrder

SpecBoot == InitBoot /\ [][NextBoot]_vars

InitDisk ==
    /\ pc = "start"
    /\ op = "DiskCliKind"
    /\ input \in DiskInputs
    /\ result = NoResult
    /\ OPENVMM_AUTO_CACHE_PATH \in {NotPresent, NotUnicode, Present(S_tmp_cache)}
    /\ target_os \in {"unix", "windows"}
    /\ overflow_checks \in BOOLEAN

ParseDiskCliKind ==
    /\ pc = "start"
    /\ op = "DiskCliKind"
    /\ result' = DiskCliKind_from_str(input)
    /\ pc' = "done"
    /\ UNCHANGED <<op, input, OPENVMM_AUTO_CACHE_PATH, target_os, overflow_checks>>

NextDisk == ParseDiskCliKind

SpecDisk == InitDisk /\ [][NextDisk]_vars

InitDiskCli ==
    /\ pc = "start"
    /\ op = "DiskCli"
    /\ input \in DiskCliInputs
    /\ result = NoResult
    /\ OPENVMM_AUTO_CACHE_PATH = NotPresent
    /\ target_os \in {"unix", "windows"}
    /\ overflow_checks \in BOOLEAN

ParseDiskCli ==
    /\ pc = "start"
    /\ op = "DiskCli"
    /\ result' = DiskCli_from_str(input)
    /\ pc' = "done"
    /\ UNCHANGED <<op, input, OPENVMM_AUTO_CACHE_PATH, target_os, overflow_checks>>

NextDiskCli == ParseDiskCli

SpecDiskCli == InitDiskCli /\ [][NextDiskCli]_vars

InitNic ==
    /\ pc = "start"
    /\ op = "NicConfigCli"
    /\ input \in NicInputs
    /\ result = NoResult
    /\ OPENVMM_AUTO_CACHE_PATH = NotPresent
    /\ target_os \in {"unix", "windows"}
    /\ overflow_checks \in BOOLEAN

ParseNicConfigCli ==
    /\ pc = "start"
    /\ op = "NicConfigCli"
    /\ result' = NicConfigCli_from_str(input)
    /\ pc' = "done"
    /\ UNCHANGED <<op, input, OPENVMM_AUTO_CACHE_PATH, target_os, overflow_checks>>

NextNic == ParseNicConfigCli

SpecNic == InitNic /\ [][NextNic]_vars

\* base-10 numerals: small ones, 2^24 - 1 and 2^24 (the largest that fits with T and the first that does not), 2^32, 2^64 - 1 and 2^64
MemoryNumerals ==
    {<<"0">>,  \* 0
     <<"1">>,  \* 1
     <<"1", "0", "2", "3">>,  \* 1023
     <<"1", "0", "2", "4">>,  \* 1024
     <<"0", "0", "7">>,  \* 007
     <<"1", "6", "7", "7", "7", "2", "1", "5">>,  \* 16777215
     <<"1", "6", "7", "7", "7", "2", "1", "6">>,  \* 16777216
     <<"4", "2", "9", "4", "9", "6", "7", "2", "9", "6">>,  \* 4294967296
     <<"1", "8", "4", "4", "6", "7", "4", "4", "0", "7", "3", "7", "0", "9", "5", "5", "1", "6", "1", "5">>,  \* 18446744073709551615
     <<"1", "8", "4", "4", "6", "7", "4", "4", "0", "7", "3", "7", "0", "9", "5", "5", "1", "6", "1", "6">>}  \* 18446744073709551616

\* sizes that are not numeral, unit, B
MemoryOtherInputs ==
    {<<>>,  \* (empty)
     <<"B">>,  \* B
     <<"K">>,  \* K
     <<"K", "B">>,  \* KB
     <<"B", "B">>,  \* BB
     <<"a", "b", "c">>,  \* abc
     <<"i", "n", "v", "a", "l", "i", "d">>,  \* invalid
     <<"1", "X">>,  \* 1X
     <<"1", "k">>,  \* 1k
     <<"1", "K", "K">>,  \* 1KK
     <<"1", "B", "B">>,  \* 1BB
     <<"1", "B", "K">>,  \* 1BK
     <<"1", " ", "K">>,  \* 1 K
     <<"-", "1">>,  \* -1
     <<"0", "x", "1", "0">>,  \* 0x10
     <<"1", ".", "5", "G">>,  \* 1.5G
     <<"+", "5">>,  \* +5
     <<"+", "5", "K">>,  \* +5K
     <<"+">>,  \* +
     <<"+", "K">>,  \* +K
     <<"1", "+", "K">>}  \* 1+K

MemoryUnits == {<<>>, <<"K">>, <<"M">>, <<"G">>, <<"T">>}

\* numeral, optional unit, optional B; and the other texts
MemoryInputs ==
    {n \o u \o b : n \in MemoryNumerals, u \in MemoryUnits, b \in {<<>>, <<"B">>}}
        \cup MemoryOtherInputs

InitMemory ==
    /\ pc = "start"
    /\ op = "parse_memory"
    /\ input \in MemoryInputs
    /\ result = NoResult
    /\ OPENVMM_AUTO_CACHE_PATH = NotPresent
    /\ target_os \in {"unix", "windows"}
    /\ overflow_checks \in BOOLEAN

ParseMemory ==
    /\ pc = "start"
    /\ op = "parse_memory"
    /\ result' = parse_memory(input)
    /\ pc' = "done"
    /\ UNCHANGED <<op, input, OPENVMM_AUTO_CACHE_PATH, target_os, overflow_checks>>

NextMemory == ParseMemory

SpecMemory == InitMemory /\ [][NextMemory]_vars

\* numeric literals: decimal and 0x-prefixed, in range and out of range, well-formed and not
NumberInputs ==
    {<<"0">>,  \* 0
     <<"1", "0">>,  \* 10
     <<"2", "5", "5">>,  \* 255
     <<"0", "0", "1", "0">>,  \* 0010
     <<"4", "2", "9", "4", "9", "6", "7", "2", "9", "6">>,  \* 4294967296
     <<"1", "8", "4", "4", "6", "7", "4", "4", "0", "7", "3", "7", "0", "9", "5", "5", "1", "6", "1", "5">>,  \* 18446744073709551615
     <<"1", "8", "4", "4", "6", "7", "4", "4", "0", "7", "3", "7", "0", "9", "5", "5", "1", "6", "1", "6">>,  \* 18446744073709551616
     <<"9", "9", "9", "9", "9", "9", "9", "9", "9", "9", "9", "9", "9", "9", "9", "9", "9", "9", "9", "9">>,  \* 99999999999999999999
     <<"0", "x", "0">>,  \* 0x0
     <<"0", "x", "1", "0">>,  \* 0x10
     <<"0", "x", "f", "f">>,  \* 0xff
     <<"0", "x", "F", "F">>,  \* 0xFF
     <<"0", "x", "a", "B">>,  \* 0xaB
     <<"0", "x", "0", "0", "1", "0">>,  \* 0x0010
     <<"0", "x", "f", "f", "f", "f", "f", "f", "f", "f", "f", "f", "f", "f", "f", "f", "f", "f">>,  \* 0xffffffffffffffff
     <<"0", "x", "1", "0", "0", "0", "0", "0", "0", "0", "0", "0", "0", "0", "0", "0", "0", "0", "0">>,  \* 0x10000000000000000
     <<>>,  \* (empty)
     <<"0", "x">>,  \* 0x
     <<"0", "X", "1", "0">>,  \* 0X10
     <<"f", "f">>,  \* ff
     <<"0", "x", "g">>,  \* 0xg
     <<"1", "2", "a">>,  \* 12a
     <<"0", "x", "1", "g">>,  \* 0x1g
     <<"+", "7">>,  \* +7
     <<"0", "x", "+", "7">>,  \* 0x+7
     <<"+">>,  \* +
     <<"0", "x", "+">>,  \* 0x+
     <<"-", "1">>,  \* -1
     <<"0", "x", "-", "1">>,  \* 0x-1
     <<" ", "1">>,  \*  1
     <<"1", " ">>,  \* 1 
     <<"0", "x", "0", "x", "1">>,  \* 0x0x1
     <<"1", "_", "0", "0", "0">>}  \* 1_000

InitNumber ==
    /\ pc = "start"
    /\ op = "parse_number"
    /\ input \in NumberInputs
    /\ result = NoResult
    /\ OPENVMM_AUTO_CACHE_PATH = NotPresent
    /\ target_os \in {"unix", "windows"}
    /\ overflow_checks \in BOOLEAN

ParseNumber ==
    /\ pc = "start"
    /\ op = "parse_number"
    /\ result' = parse_number(input)
    /\ pc' = "done"
    /\ UNCHANGED <<op, input, OPENVMM_AUTO_CACHE_PATH, target_os, overflow_checks>>

NextNumber == ParseNumber

SpecNumber == InitNumber /\ [][NextNumber]_vars

\* the option tokens of an IDE disk
IdeOptions ==
    {<<"r", "o">>,  \* ro
     <<"d", "v", "d">>,  \* dvd
     <<"p">>,  \* p
     <<"s">>,  \* s
     <<"0">>,  \* 0
     <<"1">>,  \* 1
     <<"r", "o", "=", "1">>,  \* ro=1
     <<"x">>,  \* x
     <<>>}  \* (empty)

\* the option tokens of a floppy disk
FloppyOptions ==
    {<<"r", "o">>,  \* ro
     <<"r", "o", "=", "x">>,  \* ro=x
     <<"r", "w">>,  \* rw
     <<"d", "v", "d">>,  \* dvd
     <<>>}  \* (empty)

\* the texts after the first ',' of a VMGS spec
VmgsOptions ==
    {<<"f", "m", "t">>,  \* fmt
     <<"f", "m", "t", "-", "o", "n", "-", "f", "a", "i", "l">>,  \* fmt-on-fail
     <<>>,  \* (empty)
     <<"f", "m", "t", ",", "f", "m", "t">>,  \* fmt,fmt
     <<"f", "m", "t", "-", "o", "n", "-", "f", "a", "i", "l", ",", "f", "m", "t">>,  \* fmt-on-fail,fmt
     <<"f", "m", "t", ",">>,  \* fmt,
     <<"F", "M", "T">>,  \* FMT
     <<"f", "m", "t", " ">>,  \* fmt 
     <<"f", "o", "r", "m", "a", "t">>,  \* format
     <<"f", "m", "t", "-", "o", "n", "-", "f", "a", "i", "l", "u", "r", "e">>,  \* fmt-on-failure
     <<"f", "m", "t", "=", "1">>,  \* fmt=1
     <<"r", "o">>}  \* ro

IdeInputs ==
    {Join(<<kind>> \o os, <<",">>) :
        kind \in DiskCliKinds, os \in SeqsUpTo(IdeOptions, MaxDiskOptions)}

\* a floppy spec may also be empty, or start with a comma
FloppyInputs ==
    {Join(<<kind>> \o os, <<",">>) :
        kind \in DiskCliKinds \cup {<<>>}, os \in SeqsUpTo(FloppyOptions, MaxDiskOptions)}

VmgsInputs ==
    DiskCliKinds \cup {kind \o <<",">> \o opt : kind \in DiskCliKinds, opt \in VmgsOptions}

AttachInputs(parser) ==
    CASE parser = "DiskCli" -> DiskCliInputs
      [] parser = "IdeDiskCli" -> IdeInputs
      [] parser = "FloppyDiskCli" -> FloppyInputs
      [] parser = "VmgsCli" -> VmgsInputs

\* the attachment parsers: --disk, --ide, --floppy, --vmgs
InitAttach ==
    /\ pc = "start"
    /\ op \in {"DiskCli", "IdeDiskCli", "FloppyDiskCli", "VmgsCli"}
    /\ input \in AttachInputs(op)
    /\ result = NoResult
    /\ OPENVMM_AUTO_CACHE_PATH = NotPresent
    /\ target_os \in {"unix", "windows"}
    /\ overflow_checks \in BOOLEAN

ParseIdeDiskCli ==
    /\ pc = "start"
    /\ op = "IdeDiskCli"
    /\ result' = IdeDiskCli_from_str(input)
    /\ pc' = "done"
    /\ UNCHANGED <<op, input, OPENVMM_AUTO_CACHE_PATH, target_os, overflow_checks>>

ParseFloppyDiskCli ==
    /\ pc = "start"
    /\ op = "FloppyDiskCli"
    /\ result' = FloppyDiskCli_from_str(input)
    /\ pc' = "done"
    /\ UNCHANGED <<op, input, OPENVMM_AUTO_CACHE_PATH, target_os, overflow_checks>>

ParseVmgsCli ==
    /\ pc = "start"
    /\ op = "VmgsCli"
    /\ result' = VmgsCli_from_str(input)
    /\ pc' = "done"
    /\ UNCHANGED <<op, input, OPENVMM_AUTO_CACHE_PATH, target_os, overflow_checks>>

NextAttach == ParseDiskCli \/ ParseIdeDiskCli \/ ParseFloppyDiskCli \/ ParseVmgsCli

SpecAttach == InitAttach /\ [][NextAttach]_vars


\* the key of the first pair
SerialKeys ==
    {<<"n", "o", "n", "e">>,  \* none
     <<"c", "o", "n", "s", "o", "l", "e">>,  \* console
     <<"s", "t", "d", "e", "r", "r">>,  \* stderr
     <<"f", "i", "l", "e">>,  \* file
     <<"t", "e", "r", "m">>,  \* term
     <<"l", "i", "s", "t", "e", "n">>,  \* listen
     <<"n", "a", "m", "e">>,  \* name
     <<"u", "n", "k", "n", "o", "w", "n">>,  \* unknown
     <<>>}  \* (empty)

\* what follows the first key: nothing, or '=' and a value
SerialValues ==
    {<<>>,  \* (empty)
     <<"=">>,  \* =
     <<"=", "/", "p">>,  \* =/p
     <<"=", "a", "=", "b">>}  \* =a=b

\* what may follow the key listen as well
ListenValues ==
    {<<"=", "t", "c", "p", ":", "1", "2", "7", ".", "0", ".", "0", ".", "1", ":", "1", "2", "3", "4">>,  \* =tcp:127.0.0.1:1234
     <<"=", "t", "c", "p", ":", "[", ":", ":", "1", "]", ":", "8", "0">>,  \* =tcp:[::1]:80
     <<"=", "t", "c", "p", ":", "b", "a", "d">>,  \* =tcp:bad
     <<"=", "t", "c", "p", ":">>,  \* =tcp:
     <<"=", "t", "c", "p">>,  \* =tcp
     <<"=", "T", "C", "P", ":", "1", ".", "2", ".", "3", ".", "4", ":", "5">>}  \* =TCP:1.2.3.4:5

\* the pairs that may follow the first one
SerialPairs ==
    {<<"n", "a", "m", "e", "=", "T">>,  \* name=T
     <<"n", "a", "m", "e", "=", "U">>,  \* name=U
     <<"n", "a", "m", "e">>,  \* name
     <<"n", "a", "m", "e", "=">>,  \* name=
     <<"c", "o", "n", "s", "o", "l", "e">>,  \* console
     <<>>,  \* (empty)
     <<"N", "a", "m", "e", "=", "T">>}  \* Name=T

MaxSerialPairs == 2

SerialInputs ==
    {Join(<<head>> \o ps, <<",">>) :
        head \in {key \o value : key \in SerialKeys, value \in SerialValues}
                    \cup {S_listen \o value : value \in ListenValues},
        ps \in SeqsUpTo(SerialPairs, MaxSerialPairs)}

\* --com1 and the other serial ports, whose value is parsed by SerialConfigCli::from_str
InitSerial ==
    /\ pc = "start"
    /\ op = "SerialConfigCli"
    /\ input \in SerialInputs
    /\ result = NoResult
    /\ OPENVMM_AUTO_CACHE_PATH = NotPresent
    /\ target_os \in {"unix", "windows"}
    /\ overflow_checks \in BOOLEAN

ParseSerialConfigCli ==
    /\ pc = "start"
    /\ op = "SerialConfigCli"
    /\ result' = SerialConfigCli_from_str(input)
    /\ pc' = "done"
    /\ UNCHANGED <<op, input, OPENVMM_AUTO_CACHE_PATH, target_os, overflow_checks>>

NextSerial == ParseSerialConfigCli

SpecSerial == InitSerial /\ [][NextSerial]_vars



\* the ':'-separated segments of an endpoint text
EndpointSegments ==
    {<<"n", "o", "n", "e">>,  \* none
     <<"c", "o", "n", "s", "o", "m", "m", "e">>,  \* consomme
     <<"d", "i", "o">>,  \* dio
     <<"t", "a", "p">>,  \* tap
     <<"t", "a", "p", "0">>,  \* tap0
     <<"1", "9", "2", ".", "1", "6", "8", ".", "0", ".", "0", "/", "2", "4">>,  \* 192.168.0.0/24
     <<>>,  \* (empty)
     <<"u", "h">>}  \* uh

MaxEndpointSegments == 3

EndpointInputs ==
    {Join(segments, <<":">>) : segments \in SeqsUpTo(EndpointSegments, MaxEndpointSegments)}

\* the endpoint of a NIC, parsed by EndpointConfigCli::from_str
InitEndpoint ==
    /\ pc = "start"
    /\ op = "EndpointConfigCli"
    /\ input \in EndpointInputs
    /\ result = NoResult
    /\ OPENVMM_AUTO_CACHE_PATH = NotPresent
    /\ target_os \in {"unix", "windows"}
    /\ overflow_checks \in BOOLEAN

ParseEndpointConfigCli ==
    /\ pc = "start"
    /\ op = "EndpointConfigCli"
    /\ result' = EndpointConfigCli_from_str(input)
    /\ pc' = "done"
    /\ UNCHANGED <<op, input, OPENVMM_AUTO_CACHE_PATH, target_os, overflow_checks>>

NextEndpoint == ParseEndpointConfigCli

SpecEndpoint == InitEndpoint /\ [][NextEndpoint]_vars

\* relocation types that are not a prefix and a size or number
RelocationOtherInputs ==
    {<<"d", "i", "s", "a", "b", "l", "e">>,  \* disable
     <<"D", "i", "s", "a", "b", "l", "e">>,  \* Disable
     <<"d", "i", "s", "a", "b", "l", "e", "=">>,  \* disable=
     <<"d", "i", "s", "a", "b", "l", "e", "d">>,  \* disabled
     <<>>,  \* (empty)
     <<"a", "u", "t", "o">>,  \* auto
     <<"v", "t", "l", "2">>,  \* vtl2
     <<"a", "b", "s", "o", "l", "u", "t", "e">>,  \* absolute
     <<"f", "i", "l", "e", "s", "i", "z", "e">>,  \* filesize
     <<"a", "u", "t", "o", "=", "f", "i", "l", "e", "s", "i", "z", "e">>,  \* auto=filesize
     <<"v", "t", "l", "2", "=", "f", "i", "l", "e", "s", "i", "z", "e">>,  \* vtl2=filesize
     <<"a", "b", "s", "o", "l", "u", "t", "e", "=", "f", "i", "l", "e", "s", "i", "z", "e">>,  \* absolute=filesize
     <<"a", "u", "t", "o", "=", "F", "i", "l", "e", "s", "i", "z", "e">>,  \* auto=Filesize
     <<"v", "t", "l", "2", "=", "f", "i", "l", "e", "s", "i", "z", "e", "s">>,  \* vtl2=filesizes
     <<"a", "u", "t", "o", "=", "f", "i", "l", "e", "s", "i", "z", "e", "K">>,  \* auto=filesizeK
     <<" ", "a", "u", "t", "o", "=", "f", "i", "l", "e", "s", "i", "z", "e">>,  \*  auto=filesize
     <<"A", "U", "T", "O", "=", "1", "G">>,  \* AUTO=1G
     <<"r", "e", "l", "o", "c", "a", "t", "e", "=", "1", "G">>,  \* relocate=1G
     <<"a", "u", "t", "o", ":", "1", "G">>,  \* auto:1G
     <<"a", "u", "t", "o", "=", "a", "u", "t", "o", "=", "1", "G">>}  \* auto=auto=1G

\* auto=, vtl2= or absolute= and a size or a number; and the other texts
RelocationInputs ==
    {prefix \o x : prefix \in {S_auto_eq, S_vtl2_eq, S_absolute_eq},
                   x \in MemoryInputs \cup NumberInputs}
        \cup RelocationOtherInputs

\* --igvm-vtl2-relocation-type, whose value is parsed by parse_vtl2_relocation
InitRelocation ==
    /\ pc = "start"
    /\ op = "parse_vtl2_relocation"
    /\ input \in RelocationInputs
    /\ result = NoResult
    /\ OPENVMM_AUTO_CACHE_PATH = NotPresent
    /\ target_os \in {"unix", "windows"}
    /\ overflow_checks \in BOOLEAN

ParseVtl2Relocation ==
    /\ pc = "start"
    /\ op = "parse_vtl2_relocation"
    /\ result' = parse_vtl2_relocation(input)
    /\ pc' = "done"
    /\ UNCHANGED <<op, input, OPENVMM_AUTO_CACHE_PATH, target_os, overflow_checks>>

NextRelocation == ParseVtl2Relocation

SpecRelocation == InitRelocation /\ [][NextRelocation]_vars

NumThreads == 2

Threads == 1..NumThreads

\* the cache root thread t passes to with_env_var
ThreadCacheRoot(t) == S_tmp_cache \o <<<<"1", "2", "3", "4">>[t]>>

\* the disk specs the threads parse; each reads the variable at most once
ThreadInputs ==
    {<<"a", "u", "t", "o", "c", "a", "c", "h", "e", ":", ":", "f", "i", "l", "e", ":", "d", "i", "s", "k", ".", "v", "h", "d">>,  \* autocache::file:disk.vhd
     <<"a", "u", "t", "o", "c", "a", "c", "h", "e", ":", "k", ":", "f", "i", "l", "e", ":", "a">>,  \* autocache:k:file:a
     <<"f", "i", "l", "e", ":", "a">>}  \* file:a

\* threads that each run with_env_var("OPENVMM_AUTO_CACHE_PATH", root, || DiskCliKind::from_str(s))
\* in one process: pc, input and result hold one entry per thread, and the
\* environment is the one of the process
InitThreads ==
    /\ pc = [t \in Threads |-> "start"]
    /\ op = "with_env_var"
    /\ input \in [Threads -> ThreadInputs]
    /\ result = [t \in Threads |-> NoResult]
    /\ OPENVMM_AUTO_CACHE_PATH = NotPresent
    /\ target_os \in {"unix", "windows"}
    /\ overflow_checks \in BOOLEAN

\* std::env::set_var(name, value)
set_var(t) ==
    /\ pc[t] = "start"
    /\ OPENVMM_AUTO_CACHE_PATH' = Present(ThreadCacheRoot(t))
    /\ pc' = [pc EXCEPT ![t] = "set"]
    /\ UNCHANGED <<op, input, result, target_os, overflow_checks>>

\* let result = f(), with f the call of DiskCliKind::from_str
call_f(t) ==
    /\ pc[t] = "set"
    /\ result' = [result EXCEPT ![t] = DiskCliKind_from_str(input[t])]
    /\ pc' = [pc EXCEPT ![t] = "called"]
    /\ UNCHANGED <<op, input, OPENVMM_AUTO_CACHE_PATH, target_os, overflow_checks>>

\* std::env::remove_var(name)
remove_var(t) ==
    /\ pc[t] = "called"
    /\ OPENVMM_AUTO_CACHE_PATH' = NotPresent
    /\ pc' = [pc EXCEPT ![t] = "done"]
    /\ UNCHANGED <<op, input, result, target_os, overflow_checks>>

with_env_var(t) == set_var(t) \/ call_f(t) \/ remove_var(t)

NextThreads == \E t \in Threads : with_env_var(t)

SpecThreads == InitThreads /\ [][NextThreads]_vars

\* the whole program: any one of the parsers, on any of its argument strings
Init ==
    \/ InitBoot \/ InitDisk \/ InitDiskCli \/ InitNic \/ InitMemory \/ InitNumber
    \/ InitAttach \/ InitSerial \/ InitEndpoint
    \/ InitRelocation

Next ==
    \/ ParsePcatBootOrder \/ ParseDiskCliKind \/ ParseDiskCli \/ ParseNicConfigCli
    \/ ParseMemory \/ ParseNumber
    \/ ParseIdeDiskCli \/ ParseFloppyDiskCli \/ ParseVmgsCli
    \/ ParseSerialConfigCli \/ ParseEndpointConfigCli
    \/ ParseVtl2Relocation

Spec == Init /\ [][Next]_vars

\* the parsers that hold a disk spec: the disk grammar and the four attachments
InitNested == InitDisk \/ InitAttach

NextNested ==
    \/ ParseDiskCliKind
    \/ ParseDiskCli \/ ParseIdeDiskCli \/ ParseFloppyDiskCli \/ ParseVmgsCli

SpecNested == InitNested /\ [][NextNested]_vars

-----------------------------------------------------------------------------
(* Boot order: claims *)

BootDone == pc = "done" /\ op = "PcatBootOrderCli"

BootItems == split(input, ",")

KnownBootItem(item) == PcatBootDevice(item) # None

\* the devices the user named, in the order given (all items known)
UserDevices(items) == [i \in 1..Len(items) |-> PcatBootDevice(items[i])[1]]

\* C1: every accepted boot-order string yields exactly 4 pairwise-distinct
\* devices: the devices the user named, in the user's order, followed by the
\* devices not named in the default relative order optical, hdd, net, floppy;
\* and the assert_eq!(order.len(), 4) never fails, whatever the input.
C1_BootOrderUserThenDefault ==
    BootDone =>
        /\ result.kind # "Panic"
        /\ IsOk(result) =>
            /\ \A i \in 1..Len(BootItems) : KnownBootItem(BootItems[i])
            /\ LET user == UserDevices(BootItems)
                   unnamed == SelectSeq(DEFAULT_PCAT_BOOT_ORDER,
                                        LAMBDA d : \A i \in 1..Len(user) : user[i] # d)
               IN  /\ result.val = user \o unnamed
                   /\ Len(result.val) = 4
                   /\ \A i, j \in 1..4 : i # j => result.val[i] # result.val[j]
                   /\ Range(result.val) = Range(DEFAULT_PCAT_BOOT_ORDER)

\* "floppy,optical" was parsed and gave floppy, optical, hdd, net
C1_Witness ==
    /\ BootDone
    /\ input = Join(<<S_floppy, S_optical>>, <<",">>)
    /\ result = Ok(<<"Floppy", "Optical", "HardDrive", "Network">>)

\* some device kind is named by two different items of the list
HasDuplicateKind(items) ==
    \E i, j \in 1..Len(items) :
        i < j /\ KnownBootItem(items[i]) /\ PcatBootDevice(items[i]) = PcatBootDevice(items[j])

\* the position of the first item that repeats an earlier item's device kind
FirstRepeat(items) ==
    CHOOSE j \in 1..Len(items) :
        /\ \E i \in 1..(j - 1) :
               KnownBootItem(items[i]) /\ PcatBootDevice(items[i]) = PcatBootDevice(items[j])
        /\ \A k \in 1..(j - 1) :
               ~\E i \in 1..(k - 1) :
                   KnownBootItem(items[i]) /\ PcatBootDevice(items[i]) = PcatBootDevice(items[k])

\* C2 as stated: a device kind appearing twice anywhere in the token sequence
\* always ends in the duplicate-boot-device error.
C2_DuplicateAlwaysDuplicateError ==
    (BootDone /\ HasDuplicateKind(BootItems)) =>
        IsErr(result, "cannot pass duplicate boot devices")

\* C2 (amended): a device kind appearing twice anywhere in the token sequence
\* makes the parse fail and return no order; the error is the
\* duplicate-boot-device error when every token before the first repeated one
\* names a device, and the unknown-boot-device error when an unrecognised token
\* comes before it.
C2_DuplicateFails ==
    (BootDone /\ HasDuplicateKind(BootItems)) =>
        LET j == FirstRepeat(BootItems)
        IN  /\ result.kind = "Err"
            /\ (\A i \in 1..(j - 1) : KnownBootItem(BootItems[i]))
                   => IsErr(result, "cannot pass duplicate boot devices")
            /\ (\E i \in 1..(j - 1) : ~KnownBootItem(BootItems[i]))
                   => IsErr(result, "unknown boot device type")

\* a non-adjacent duplicate, "optical,hdd,optical", was rejected as a duplicate
C2_Witness ==
    /\ BootDone
    /\ input = Join(<<S_optical, S_hdd, S_optical>>, <<",">>)
    /\ IsErr(result, "cannot pass duplicate boot devices")

\* C3: with no boot device named (the empty argument, the only string that
\* names none) the resolver succeeds and returns the default order
\* [Optical, HardDrive, Network, Floppy].
C3_EmptyGivesDefaultOrder ==
    (BootDone /\ input = <<>>) => result = Ok(DEFAULT_PCAT_BOOT_ORDER)

-----------------------------------------------------------------------------
(* Attachments: claims *)

DiskCliDone == pc = "done" /\ op = "DiskCli"

\* the keys of the options after the disk spec: each token up to its first '='
DiskOptionKeys == {split(opt, "=")[1] : opt \in Range(Tail(split(input, ",")))}

\* C4: no accepted DiskCli has a relay (underhill, from uh or uh-nvme) together
\* with vtl = VTL2: an option list holding vtl2 and either of uh and uh-nvme is
\* rejected, in any order and with any number of occurrences.
C4_RelayExcludesVtl2 ==
    DiskCliDone =>
        /\ IsOk(result) => ~(result.val.underhill # None /\ result.val.vtl = "Vtl2")
        /\ (S_vtl2 \in DiskOptionKeys /\ DiskOptionKeys \cap {S_uh, S_uh_nvme} # {})
               => result.kind = "Err"

\* "file:a,uh-nvme,ro,vtl2" was rejected as an incompatible combination
C4_Witness ==
    /\ DiskCliDone
    /\ input = Join(<<S_file \o <<":", "a">>, S_uh_nvme, S_ro, S_vtl2>>, <<",">>)
    /\ IsErr(result, "uh is incompatible with vtl2")

NicDone == pc = "done" /\ op = "NicConfigCli"

\* the leading ':'-terminated segments that are options: vtl2, uh or queues=<n>
RECURSIVE NicOptionPrefix(_)
NicOptionPrefix(segments) ==
    IF Len(segments) <= 1 THEN <<>>
    ELSE IF Head(segments) \in {S_vtl2, S_uh}
             \/ starts_with(Head(segments), S_queues \o <<"=">>)
        THEN <<Head(segments)>> \o NicOptionPrefix(Tail(segments))
    ELSE <<>>

\* the queue counts of an option prefix all parse as u16
QueueCountsParse(options) ==
    \A i \in 1..Len(options) :
        LET n == strip_prefix(options[i], S_queues \o <<"=">>)
        IN  n # None => IsOk(parse_u16(n[1]))

\* C5: no accepted NicConfigCli has underhill = true together with vtl = VTL2:
\* an option prefix holding both uh and vtl2 is rejected, in either order
\* (uh:vtl2:... and vtl2:uh:...), also when the endpoint text is a valid one;
\* the error is the incompatible-combination one unless a queue count of the
\* prefix fails to parse first.
C5_NicRelayExcludesVtl2 ==
    NicDone =>
        LET options == NicOptionPrefix(split(input, ":"))
        IN  /\ IsOk(result) => ~(result.val.underhill /\ result.val.vtl = "Vtl2")
            /\ {S_uh, S_vtl2} \subseteq Range(options) =>
                   /\ result.kind = "Err"
                   /\ QueueCountsParse(options)
                          => IsErr(result, "uh is incompatible with vtl2")

\* "vtl2:uh:none", whose endpoint is valid, was rejected as incompatible
C5_Witness ==
    /\ NicDone
    /\ input = Join(<<S_vtl2, S_uh, S_none>>, <<":">>)
    /\ IsErr(result, "uh is incompatible with vtl2")

-----------------------------------------------------------------------------
(* Disk grammar: claims *)

DiskDone == pc = "done" /\ op = "DiskCliKind"

\* the text after `keyword:` when the input starts with it, else None
AfterKeyword(s, keyword) == strip_prefix(s, keyword \o <<":">>)

\* what wrapping a parsed child must give: the node around an accepted child
WrapsChild(r, child, node) == IsOk(child) => r = Ok(node)

DiskKeywords ==
    {S_mem, S_memdiff, S_sql, S_sqldiff, S_autocache, S_prwrap, S_file, S_blob, S_crypt}

\* the wrapper nodes of a tree, outermost first
RECURSIVE Nesting(_)
Nesting(d) ==
    IF d.tag \in {"MemoryDiff", "PersistentReservationsWrapper", "SqliteDiff",
                  "AutoCacheSqlite", "Crypt"}
        THEN <<d.tag>> \o Nesting(d.disk)
        ELSE <<>>

\* the n-th ':' of s and everything before it removed (n >= 1), None if there
\* are fewer than n
RECURSIVE SkipSegments(_, _)
SkipSegments(s, n) ==
    LET sp == split_once(s, ":")
    IN  IF sp = None THEN None
        ELSE IF n = 1 THEN Some(sp[1][2])
        ELSE SkipSegments(sp[1][2], n - 1)

\* the wrapper keywords an input starts with, outermost first, each followed
\* by the segments it takes
RECURSIVE WrapperPrefixes(_)
WrapperPrefixes(s) ==
    LET sp == split_once(s, ":")
        kind == sp[1][1]
        then(tag, n) ==
            LET rest == SkipSegments(s, n)
            IN  IF rest = None THEN <<tag>> ELSE <<tag>> \o WrapperPrefixes(rest[1])
    IN  IF sp = None THEN <<>>
        ELSE CASE kind = S_memdiff -> then("MemoryDiff", 1)
               [] kind = S_prwrap -> then("PersistentReservationsWrapper", 1)
               [] kind = S_sqldiff -> then("SqliteDiff", 2)
               [] kind = S_autocache -> then("AutoCacheSqlite", 2)
               [] kind = S_crypt -> then("Crypt", 3)
               [] OTHER -> <<>>

\* C6: each wrapper keyword builds its own node around the recursively parsed
\* remainder: memdiff:R gives MemoryDiff(parse(R)), prwrap:R gives
\* PersistentReservationsWrapper(parse(R)), sqldiff:P:R gives SqliteDiff with
\* path P, create false and child parse(R), sqldiff:P;create:R the same with
\* create true, crypt:xts-aes-256:K:R gives Crypt with key file K and child
\* parse(R); so the wrapper nodes of an accepted input, outermost first, are the
\* wrapper prefixes of the input in the order written.
C6_WrappersNestInInputOrder ==
    DiskDone =>
        /\ LET R == AfterKeyword(input, S_memdiff)
           IN  R # None =>
                   LET child == DiskCliKind_from_str(R[1])
                   IN  WrapsChild(result, child, [tag |-> "MemoryDiff", disk |-> child.val])
        /\ LET R == AfterKeyword(input, S_prwrap)
           IN  R # None =>
                   LET child == DiskCliKind_from_str(R[1])
                   IN  WrapsChild(result, child,
                           [tag |-> "PersistentReservationsWrapper", disk |-> child.val])
        /\ LET A == AfterKeyword(input, S_sqldiff)
               PR == IF A = None THEN None ELSE split_once(A[1], ":")
           IN  PR # None =>
                   LET P == PR[1][1]
                       child == DiskCliKind_from_str(PR[1][2])
                       Q == strip_prefix(Reverse(P), Reverse(<<";">> \o S_create))
                   IN  /\ find(P, ";", 1) = 0 =>
                              WrapsChild(result, child,
                                  [tag |-> "SqliteDiff", path |-> P, create |-> FALSE,
                                   disk |-> child.val])
                       /\ (Q # None /\ find(Q[1], ";", 1) = 0) =>
                              WrapsChild(result, child,
                                  [tag |-> "SqliteDiff", path |-> Reverse(Q[1]),
                                   create |-> TRUE, disk |-> child.val])
        /\ LET A == AfterKeyword(input, S_crypt \o <<":">> \o S_xts_aes_256)
               KR == IF A = None THEN None ELSE split_once(A[1], ":")
           IN  KR # None =>
                   LET child == DiskCliKind_from_str(KR[1][2])
                   IN  WrapsChild(result, child,
                           [tag |-> "Crypt", cipher |-> "XtsAes256",
                            key_file |-> KR[1][1], disk |-> child.val])
        /\ IsOk(result) => Nesting(result.val) = WrapperPrefixes(input)

\* crypt around sqldiff;create around a file was parsed into that tree
C6_Witness ==
    /\ DiskDone
    /\ input = Join(<<S_crypt, S_xts_aes_256, <<"k">>, S_sqldiff,
                      <<"d", ";">> \o S_create, S_file, <<"a">>>>, <<":">>)
    /\ result = Ok(Crypt("XtsAes256", <<"k">>,
                         SqliteDiff(<<"d">>, TRUE, File(<<"a">>, None))))

\* the text the path-and-length rule applies to: the whole of a string without
\* ':', or what follows `file:` or `sql:`; None for any other input
PathText(s) ==
    IF find(s, ":", 1) = 0 THEN Some(s)
    ELSE IF AfterKeyword(s, S_file) # None THEN AfterKeyword(s, S_file)
    ELSE AfterKeyword(s, S_sql)

PathTag(s) == IF AfterKeyword(s, S_sql) # None THEN "Sqlite" ELSE "File"

\* C7: for a bare string without ':' and for the prefixes file: and sql:, the
\* path is the text before the first ';' and create_len is None when there is
\* no ';'; after ';', create=<size> gives Some(parse_memory(size)), or
\* Some(VMGS_DEFAULT_CAPACITY) when size is literally VMGS_DEFAULT; any other
\* text after ';', create= with an empty size included, fails the parse.
C7_PathAndCreateLen ==
    (DiskDone /\ PathText(input) # None) =>
        LET text == PathText(input)[1]
            semi == find(text, ";", 1)
            path == SubSeq(text, 1, semi - 1)
            after == SubSeq(text, semi + 1, Len(text))
            size == strip_prefix(after, S_create_eq)
            node(p, l) == [tag |-> PathTag(input), path |-> p, create_with_len |-> l]
        IN  /\ semi = 0 => result = Ok(node(text, None))
            /\ (semi # 0 /\ size = None) => result.kind = "Err"
            /\ (semi # 0 /\ size = Some(<<>>)) => result.kind = "Err"
            /\ (semi # 0 /\ size = Some(S_VMGS_DEFAULT)) =>
                   result = Ok(node(path, Some(VMGS_DEFAULT_CAPACITY)))
            /\ (semi # 0 /\ size # None /\ size # Some(S_VMGS_DEFAULT)) =>
                   LET len == parse_memory(size[1])
                   IN  IF IsOk(len) THEN result = Ok(node(path, Some(len.val)))
                       ELSE result = len

\* "sql:a;create=1M" was parsed into Sqlite with a one-mebibyte create length
C7_Witness ==
    /\ DiskDone
    /\ input = S_sql \o <<":", "a", ";">> \o S_create_eq \o <<"1", "M">>
    /\ result = Ok(Sqlite(<<"a">>, Some(U64(1048576))))

\* C8: the grammar returns no DiskSpec for a blob: kind other than flat or
\* vhd1, a crypt: cipher other than xts-aes-256, a sqldiff: path suffix after
\* ';' that is not exactly create, and a sqldiff:, blob:, autocache: or crypt:
\* argument without the ':'-separated segments it needs.
C8_MalformedKeywordArgumentsRejected ==
    DiskDone =>
        /\ LET A == AfterKeyword(input, S_blob)
               KU == IF A = None THEN None ELSE split_once(A[1], ":")
           IN  /\ (A # None /\ KU = None) => IsErr(result, "expected kind:url")
               /\ (KU # None /\ KU[1][1] \notin {S_flat, S_vhd1}) =>
                      result = ErrWith("unknown blob kind", KU[1][1])
        /\ LET A == AfterKeyword(input, S_crypt)
               rest == IF A = None THEN None ELSE SkipSegments(A[1], 2)
           IN  /\ (A # None /\ rest = None) => IsErr(result, "expected cipher:key_file:kind")
               /\ (rest # None /\ split_once(A[1], ":")[1][1] # S_xts_aes_256) =>
                      IsErr(result, "invalid cipher")
        /\ LET A == AfterKeyword(input, S_sqldiff)
               PR == IF A = None THEN None ELSE split_once(A[1], ":")
               suffix == IF PR = None THEN None ELSE split_once(PR[1][1], ";")
           IN  /\ (A # None /\ PR = None) => IsErr(result, "expected path[;opts]:kind")
               /\ (suffix # None /\ suffix[1][2] # S_create) => result.kind \in {"Err", "Panic"}
        /\ LET A == AfterKeyword(input, S_autocache)
           IN  (A # None /\ find(A[1], ":", 1) = 0) => IsErr(result, "expected [key]:kind")

\* "crypt:xts-aes-256:key.bin", which names no child, was rejected
C8_Witness ==
    /\ DiskDone
    /\ input = Join(<<S_crypt, S_xts_aes_256,
                      <<"k", "e", "y", ".", "b", "i", "n">>>>, <<":">>)
    /\ IsErr(result, "expected cipher:key_file:kind")

\* C9: autocache:<key>:<rest> succeeds only with a cache root: with the root C
\* set it yields AutoCacheSqlite with cache_path C, key None for an empty <key>
\* and Some(<key>) otherwise, and child parse(<rest>); with no root available it
\* fails with the missing-cache-root error, for every key and every child.
C9_AutoCacheNeedsCacheRoot ==
    DiskDone =>
        LET A == AfterKeyword(input, S_autocache)
            KR == IF A = None THEN None ELSE split_once(A[1], ":")
        IN  KR # None =>
                LET key == KR[1][1]
                    child == DiskCliKind_from_str(KR[1][2])
                IN  IF OPENVMM_AUTO_CACHE_PATH.kind = "Present"
                        THEN IF IsOk(child)
                                 THEN result =
                                          Ok([tag |-> "AutoCacheSqlite",
                                              cache_path |-> OPENVMM_AUTO_CACHE_PATH.val,
                                              key |-> IF key = <<>> THEN None ELSE Some(key),
                                              disk |-> child.val])
                                 ELSE ~IsOk(result)
                        ELSE IsErr(result, "must set cache path via OPENVMM_AUTO_CACHE_PATH")

\* with the cache root set, "autocache:k:file:a" was parsed with key k
C9_Witness ==
    /\ DiskDone
    /\ OPENVMM_AUTO_CACHE_PATH = Present(S_tmp_cache)
    /\ input = Join(<<S_autocache, <<"k">>, S_file, <<"a">>>>, <<":">>)
    /\ result = Ok(AutoCacheSqlite(S_tmp_cache, Some(<<"k">>), File(<<"a">>, None)))

\* the input has a ':' and the text before the first one is no keyword
UnknownPrefix(s) == find(s, ":", 1) # 0 /\ split_once(s, ":")[1][1] \notin DiskKeywords

\* the whole input up to its first ';'
BarePath(s) == IF find(s, ";", 1) = 0 THEN s ELSE SubSeq(s, 1, find(s, ";", 1) - 1)

\* C10 as stated: with a prefix that is none of the nine keywords the whole
\* input is read as a bare path: a rooted path gives File with that path, and a
\* path without a root fails with the unknown-disk-kind error naming the prefix.
C10_UnknownPrefixRootedOrUnknownKind ==
    (DiskDone /\ UnknownPrefix(input)) =>
        IF has_root(BarePath(input))
            THEN IsOk(result) /\ result.val.tag = "File"
                              /\ result.val.path = BarePath(input)
            ELSE result = ErrWith("invalid disk kind", split_once(input, ":")[1][1])

\* the text after the first ';' of the input is a well-formed create=<size>
\* (there being no ';' counts as well-formed)
SuffixParses(s) ==
    LET semi == find(s, ";", 1)
        size == strip_prefix(SubSeq(s, semi + 1, Len(s)), S_create_eq)
    IN  semi = 0 \/ (size # None /\ (size[1] = S_VMGS_DEFAULT \/ IsOk(parse_memory(size[1]))))

\* C10 (amended): with a prefix that is none of the nine keywords (matched
\* case-sensitively) the whole input is read as a bare path with its optional
\* ;create=<size> suffix. If the text after the first ';' is not a well-formed
\* create=<size>, the parse fails with that suffix's error, rooted or not.
\* Otherwise a rooted path gives File with the text before the ';' as path, and
\* a path without a root fails with the unknown-disk-kind error naming the
\* prefix.
C10_UnknownPrefixFallback ==
    (DiskDone /\ UnknownPrefix(input)) =>
        IF ~SuffixParses(input)
            THEN ~IsOk(result) /\ ~IsErr(result, "invalid disk kind")
        ELSE IF has_root(BarePath(input))
            THEN IsOk(result) /\ result.val.tag = "File"
                              /\ result.val.path = BarePath(input)
        ELSE result = ErrWith("invalid disk kind", split_once(input, ":")[1][1])

\* the rooted path "/r:x" with a create suffix was parsed into a File
C10_Witness ==
    /\ DiskDone
    /\ input = <<"/", "r", ":", "x", ";">> \o S_create_eq \o <<"1", "K">>
    /\ result = Ok(File(<<"/", "r", ":", "x">>, Some(U64(1024))))

-----------------------------------------------------------------------------
(* Sizes and numbers: claims *)

\* A natural number of any size the claims need: 16 bytes, least significant
\* first, so that a product is the mathematical one and never wraps.
Wide(u64) == u64 \o <<0, 0, 0, 0, 0, 0, 0, 0>>

\* a * m + c for small m and c
RECURSIVE WideScaleFrom(_, _, _, _)
WideScaleFrom(a, m, carry, i) ==
    IF i > Len(a) THEN <<>>
    ELSE <<(a[i] * m + carry) % 256>>
             \o WideScaleFrom(a, m, (a[i] * m + carry) \div 256, i + 1)

WideScale(a, m, c) == WideScaleFrom(a, m, c, 1)

FitsU64(w) == \A i \in 9..Len(w) : w[i] = 0

\* the value of a digit character: 0..15, or -1 when it is no digit
DigitValue(c) ==
    IF find(LowerDigits, c, 1) # 0 THEN find(LowerDigits, c, 1) - 1
    ELSE find(UpperDigits, c, 1) - 1

\* a numeral: one or more digits of the radix, and nothing else
IsNumeral(s, radix) ==
    s # <<>> /\ \A i \in 1..Len(s) : DigitValue(s[i]) \in 0..(radix - 1)

\* the number a numeral denotes
RECURSIVE NumeralValueFrom(_, _, _)
NumeralValueFrom(digits, radix, acc) ==
    IF digits = <<>> THEN acc
    ELSE NumeralValueFrom(Tail(digits), radix,
                          WideScale(acc, radix, DigitValue(Head(digits))))

NumeralValue(digits, radix) == NumeralValueFrom(digits, radix, Wide(U64(0)))

\* a numeral with one optional '+' in front of it removed
Unsigned(s) == IF s # <<>> /\ Head(s) = "+" THEN Tail(s) ELSE s

MemoryDone == pc = "done" /\ op = "parse_memory"

\* the size text without one optional trailing B
WithoutB(s) == IF s # <<>> /\ s[Len(s)] = "B" THEN SubSeq(s, 1, Len(s) - 1) ELSE s

\* the power of 1024 that the unit letter ending a text stands for, 0 without one
UnitPower(s) ==
    IF s = <<>> THEN 0
    ELSE CASE s[Len(s)] = "K" -> 1
           [] s[Len(s)] = "M" -> 2
           [] s[Len(s)] = "G" -> 3
           [] s[Len(s)] = "T" -> 4
           [] OTHER -> 0

\* what is left of the size text without its optional B and its optional unit
MemoryNumeral(s) ==
    IF UnitPower(WithoutB(s)) = 0 THEN WithoutB(s)
    ELSE SubSeq(WithoutB(s), 1, Len(WithoutB(s)) - 1)

RECURSIVE WideTimes1024(_, _)
WideTimes1024(w, k) == IF k = 0 THEN w ELSE WideTimes1024(WideScale(w, 1024, 0), k - 1)

\* size x multiplier, as a natural number
MemoryProduct(s) ==
    WideTimes1024(NumeralValue(MemoryNumeral(s), 10), UnitPower(WithoutB(s)))

\* C11 as stated: for every input made of a base-10 numeral, an optional unit
\* letter from K, M, G, T and an optional trailing B, parse_memory returns
\* size x multiplier (multiplier 1024, 1024^2, 1024^3, 1024^4, or 1 without a
\* unit).
C11_SizeTimesMultiplier ==
    (MemoryDone /\ IsNumeral(MemoryNumeral(input), 10)) =>
        IsOk(result) /\ Wide(result.val) = MemoryProduct(input)

\* the sizes C11 lists: 0, 1, 1023 and 1024 with each unit, with and without
\* B, do give size x multiplier
C11_ListedSizes ==
    (MemoryDone /\ MemoryNumeral(input) \in {<<"0">>, <<"1">>, <<"1", "0", "2", "3">>,
                                             <<"1", "0", "2", "4">>}) =>
        IsOk(result) /\ Wide(result.val) = MemoryProduct(input)

\* C12 as stated: parse_memory fails whenever the text left after stripping one
\* optional trailing B and one optional unit letter is empty or is not a
\* base-10 numeral.
C12_NonNumeralFails ==
    (MemoryDone /\ ~IsNumeral(MemoryNumeral(input), 10)) => result.kind = "Err"

\* C12 (amended): parse_memory fails whenever the text left after stripping one
\* optional trailing B and one optional unit letter is empty or is not a
\* base-10 numeral optionally preceded by one '+' sign: "", "B", "K", "KB",
\* "abc", "1X", the lowercase unit "1k" and the doubled suffixes "1KK" and
\* "1BB" are all errors and never yield a size.
C12_NonNumeralFailsUnlessSigned ==
    (MemoryDone /\ ~IsNumeral(Unsigned(MemoryNumeral(input)), 10)) =>
        /\ result.kind = "Err"
        /\ result = ErrWith("invalid memory size", input)

\* the doubled suffix "1KK" was rejected
C12_Witness ==
    /\ MemoryDone
    /\ input = <<"1", "K", "K">>
    /\ result = ErrWith("invalid memory size", <<"1", "K", "K">>)

NumberDone == pc = "done" /\ op = "parse_number"

\* the digits of a numeric literal and their radix
NumberRadix(s) == IF starts_with(s, S_0x) THEN 16 ELSE 10

NumberDigits(s) == IF starts_with(s, S_0x) THEN SubSeq(s, 3, Len(s)) ELSE s

\* the value when the digits are a numeral that fits 64 bits, an error otherwise
ExactOrError(digits, radix) ==
    IF IsNumeral(digits, radix) /\ FitsU64(NumeralValue(digits, radix))
        THEN IsOk(result) /\ Wide(result.val) = NumeralValue(digits, radix)
        ELSE result.kind = "Err"

\* C13 as stated: parse_number reads the digits after a lowercase 0x prefix in
\* base 16 and any other input in base 10; it returns the exact value when it
\* fits 64 unsigned bits and fails when the value exceeds 2^64 - 1 or a digit is
\* malformed.
C13_ExactValueOrError ==
    NumberDone => ExactOrError(NumberDigits(input), NumberRadix(input))

\* C13 (amended): the same, one '+' sign being accepted in front of the digits
\* in both bases; the value is never reduced modulo 2^64.
C13_ExactValueOrErrorSigned ==
    NumberDone => ExactOrError(Unsigned(NumberDigits(input)), NumberRadix(input))

\* "0xff" was read in base 16
C13_Witness ==
    /\ NumberDone
    /\ input = <<"0", "x", "f", "f">>
    /\ result = Ok(U64(255))

-----------------------------------------------------------------------------
(* Attachment options: claims *)

\* C14: in every accepted DiskCli and IdeDiskCli, is_dvd implies read_only:
\* dvd sets read_only with or without ro and wherever dvd stands among the
\* options, and no later option clears read_only (read_only is set exactly when
\* ro or dvd is among the option keys, is_dvd exactly when dvd is).
C14_DvdImpliesReadOnly ==
    (pc = "done" /\ op \in {"DiskCli", "IdeDiskCli"} /\ IsOk(result)) =>
        /\ result.val.is_dvd => result.val.read_only
        /\ result.val.is_dvd <=> S_dvd \in DiskOptionKeys
        /\ result.val.read_only <=> (DiskOptionKeys \cap {S_ro, S_dvd} # {})

\* the generic disk "file:a,dvd,vtl2" and the IDE disk "file:a,dvd,s", neither
\* naming ro, were parsed as read-only DVDs
C14_Witness ==
    /\ pc = "done"
    /\ \/ /\ op = "DiskCli"
          /\ input = Join(<<S_file \o <<":", "a">>, S_dvd, S_vtl2>>, <<",">>)
       \/ /\ op = "IdeDiskCli"
          /\ input = Join(<<S_file \o <<":", "a">>, S_dvd, <<"s">>>>, <<",">>)
    /\ IsOk(result)
    /\ result.val.is_dvd /\ result.val.read_only

FloppyDone == pc = "done" /\ op = "FloppyDiskCli"

\* C15: FloppyDiskCli::from_str fails on the empty string with its own
\* empty-spec error and returns no File with an empty path for it; ro is the
\* only option it accepts, read_only being true exactly when ro is present; any
\* other option key fails the parse, with the unknown-option error naming the
\* first such key when the disk spec itself is accepted.
C15_FloppyEmptySpecAndRoOnly ==
    FloppyDone =>
        /\ input = <<>> => result = Err("empty disk spec")
        /\ IsOk(result) =>
               /\ DiskOptionKeys \subseteq {S_ro}
               /\ result.val.read_only <=> S_ro \in DiskOptionKeys
        /\ (input # <<>> /\ ~(DiskOptionKeys \subseteq {S_ro})) =>
               /\ result.kind = "Err"
               /\ IsOk(DiskCliKind_from_str(split(input, ",")[1])) =>
                      /\ IsErr(result, "unknown option")
                      /\ result.val.arg \in DiskOptionKeys \ {S_ro}

\* the empty string was rejected as an empty disk spec
C15_Witness ==
    /\ FloppyDone
    /\ input = <<>>
    /\ result = Err("empty disk spec")

VmgsDone == pc = "done" /\ op = "VmgsCli"

\* what the option text after the first ',' must give, the disk spec being kind
VmgsProvision(kind, opt) ==
    IF opt = None THEN result = Ok([kind |-> kind, provision |-> "OnEmpty"])
    ELSE IF opt = Some(S_fmt_on_fail)
        THEN result = Ok([kind |-> kind, provision |-> "OnFailure"])
    ELSE IF opt = Some(S_fmt) THEN result = Ok([kind |-> kind, provision |-> "True"])
    ELSE result = ErrWith("unknown option", opt[1])

\* C16: VmgsCli::from_str takes everything after the first ',' as one single
\* option (the disk spec before it being accepted): no comma gives OnEmpty,
\* exactly fmt-on-fail gives OnFailure, exactly fmt gives True (format always),
\* and any other option text, the empty text after a trailing comma and a
\* second option such as fmt,fmt included, fails with the unknown-option error.
C16_VmgsSingleOption ==
    VmgsDone =>
        LET comma == find(input, ",", 1)
            opt == IF comma = 0 THEN None
                   ELSE Some(SubSeq(input, comma + 1, Len(input)))
            expect(kind) == IF IsOk(kind) THEN VmgsProvision(kind.val, opt)
                                          ELSE result = kind
        IN  expect(DiskCliKind_from_str(
                       IF comma = 0 THEN input ELSE SubSeq(input, 1, comma - 1)))

\* "file:a,fmt,fmt" was rejected: its option text is "fmt,fmt"
C16_Witness ==
    /\ VmgsDone
    /\ input = S_file \o <<":", "a", ",">> \o S_fmt \o <<",">> \o S_fmt
    /\ result = ErrWith("unknown option", S_fmt \o <<",">> \o S_fmt)

-----------------------------------------------------------------------------
(* Serial ports: claims *)

SerialDone == pc = "done" /\ op = "SerialConfigCli"

\* the text of the argument before its first ',' or '='
SerialFirstKey ==
    LET stops == {i \in 1..Len(input) : input[i] \in {",", "="}}
    IN  IF stops = {} THEN input
        ELSE SubSeq(input, 1, (CHOOSE i \in stops : \A j \in stops : i <= j) - 1)

\* the comma-separated tokens after the first one
SerialLaterTokens == Tail(split(input, ","))

SerialKnownKeys == {S_none, S_console, S_stderr, S_file, S_term, S_listen}

\* C17: the serial grammar dispatches on the key of the first pair only. A
\* first key none, console or stderr gives None, Console or Stderr whatever
\* value it carries and whatever pairs follow, and a first key that is none of
\* none, console, stderr, file, term, listen fails with the unknown-option
\* error naming that key, even when a later pair has a known key.
C17_FirstKeyDispatch ==
    SerialDone =>
        /\ SerialFirstKey = S_none => result = Ok([tag |-> "None"])
        /\ SerialFirstKey = S_console => result = Ok([tag |-> "Console"])
        /\ SerialFirstKey = S_stderr => result = Ok([tag |-> "Stderr"])
        /\ SerialFirstKey \notin SerialKnownKeys =>
              result = ErrWith("invalid serial configuration: '{}' is not a known option",
                               SerialFirstKey)

\* an unknown first key followed by the pair console has been rejected
C17_Witness ==
    /\ SerialDone
    /\ SerialFirstKey \notin SerialKnownKeys
    /\ SerialFirstKey # <<>>
    /\ \E i \in 1..Len(SerialLaterTokens) : SerialLaterTokens[i] = S_console
    /\ result.kind = "Err"

\* the pairs of the argument, and the value of the first one, as the list
\* parser hands them to the dispatch
SerialPairsOf == parse_keyvalues(input).val

SerialFirstValue == SerialPairsOf[1].value

\* listen=tcp:127.0.0.1:1234 listens on port 1234 = 4 * 256 + 210 of 127.0.0.1
SerialTcpAddressRead ==
    SerialDone /\ input = S_listen \o <<"=">> \o S_tcp_colon
                            \o <<"1", "2", "7", ".", "0", ".", "0", ".", "1", ":", "1", "2", "3", "4">>
        => result = Ok([tag |-> "Tcp",
                        addr |-> [tag |-> "V4", ip |-> <<127, 0, 0, 1>>, port |-> <<210, 4>>]])

SerialNamedWithValue ==
    {i \in 1..Len(SerialPairsOf) :
        SerialPairsOf[i].key = S_name /\ SerialPairsOf[i].value # None}

\* C19: when the first key is term the result is NewConsole(path, title):
\* path is the value of term when it has one and absent otherwise, and title
\* is the value of a pair of the list whose key is name and whose value is
\* present, absent only when the list has no such pair; this both when term
\* carries a value and when it does not.
C19_TermTitleFromWholeList ==
    SerialDone /\ SerialFirstKey = S_term =>
        /\ IsOk(result)
        /\ result.val.tag = "NewConsole"
        /\ result.val.path = SerialFirstValue
        /\ IF SerialNamedWithValue = {}
           THEN result.val.name = None
           ELSE \E i \in SerialNamedWithValue : result.val.name = SerialPairsOf[i].value

\* what the term arm does: without a value of term the title is always
\* absent, and with one it is the value of the first pair whose key is name,
\* absent when that pair has no value whatever pairs follow it
C19_TermTitleFromFirstNameOfValuedTerm ==
    SerialDone /\ SerialFirstKey = S_term =>
        /\ IsOk(result)
        /\ result.val.tag = "NewConsole"
        /\ result.val.path = SerialFirstValue
        /\ SerialFirstValue = None => result.val.name = None
        /\ SerialFirstValue # None =>
              LET named == {i \in 1..Len(SerialPairsOf) : SerialPairsOf[i].key = S_name}
              IN  IF named = {} THEN result.val.name = None
                  ELSE \A i \in named :
                          (\A j \in named : i <= j) => result.val.name = SerialPairsOf[i].value

\* term,name=T has been parsed
C19_Witness ==
    /\ SerialDone
    /\ input = S_term \o <<",">> \o S_name \o <<"=", "T">>
    /\ IsOk(result)

\* some comma-separated token of the argument has an empty key: it is empty
\* or starts with '='
SerialHasEmptyKey ==
    \E i \in 1..Len(split(input, ",")) :
        \/ split(input, ",")[i] = <<>>
        \/ split(input, ",")[i][1] = "="

\* C20: the key/value list parser rejects every input that has a token with an
\* empty key (the empty string, a token that starts with '=', an empty token
\* left by a leading, trailing or doubled comma), and so the serial grammar
\* fails on all of these.
C20_EmptyKeyRejected ==
    SerialDone /\ SerialHasEmptyKey =>
        /\ parse_keyvalues(input).kind = "Err"
        /\ result.kind = "Err"

\* what the code does: the list parser accepts every input, and the serial
\* grammar fails on an empty key only when it is the first one, as on any
\* other unknown first key
C20_OnlyEmptyFirstKeyFails ==
    SerialDone =>
        /\ parse_keyvalues(input).kind = "Ok"
        /\ SerialFirstKey = <<>> =>
              result = ErrWith("invalid serial configuration: '{}' is not a known option", <<>>)
        /\ SerialFirstKey \in {S_none, S_console, S_stderr} => IsOk(result)

\* console followed by a trailing comma has been parsed
C20_Witness ==
    /\ SerialDone
    /\ input = S_console \o <<",">>
    /\ result = Ok([tag |-> "Console"])

-----------------------------------------------------------------------------
(* Network: claims *)

EndpointDone == pc = "done" /\ op = "EndpointConfigCli"

\* the argument split on ':'
EndpointParts == split(input, ":")

\* the second segment when there is one
EndpointSecond == IF Len(EndpointParts) >= 2 THEN Some(EndpointParts[2]) ELSE None

-----------------------------------------------------------------------------
(* VTL2 relocation: claims *)

RelocationDone == pc = "done" /\ op = "parse_vtl2_relocation"

\* the outcome for auto=<x> and vtl2=<x>: no size for filesize, and otherwise
\* the size parse_memory gives for x, an unknown-relocation-type error when it
\* gives an error, and its panic when it panics
RelocationSized(tag, x) ==
    IF x = S_filesize THEN result = Ok([tag |-> tag, size |-> None])
    ELSE CASE parse_memory(x).kind = "Ok" ->
                 result = Ok([tag |-> tag, size |-> Some(parse_memory(x).val)])
           [] parse_memory(x).kind = "Err" ->
                 IsErr(result, "unknown VTL2 relocation type: {0}")
           [] OTHER -> result.kind = "Panic"

\* auto=1G asks for 2^30 bytes and absolute=0x10 for address 16
RelocationValuesRead ==
    /\ input = S_auto_eq \o <<"1", "G">>
          => result = Ok([tag |-> "MemoryLayout", size |-> Some(<<0, 0, 0, 64, 0, 0, 0, 0>>)])
    /\ input = S_absolute_eq \o <<"0", "x", "1", "0">>
          => result = Ok([tag |-> "Absolute", addr |-> <<16, 0, 0, 0, 0, 0, 0, 0>>])

\* C22: the relocation grammar maps exactly disable to no relocation (File),
\* auto=filesize and vtl2=filesize to MemoryLayout and Vtl2Allocate without a
\* size, auto=<x> and vtl2=<x> for any other x to the same variants with the
\* size parse_memory reads from x, absolute=<x> to Absolute of the number
\* parse_number reads from x, and fails with the unknown-relocation-type error
\* for every other input and whenever the size or number does not parse.
C22_RelocationGrammar ==
    RelocationDone =>
        /\ result = Ok([tag |-> "File"]) <=> input = S_disable
        /\ starts_with(input, S_auto_eq) =>
              RelocationSized("MemoryLayout", strip_prefix(input, S_auto_eq)[1])
        /\ starts_with(input, S_vtl2_eq) =>
              RelocationSized("Vtl2Allocate", strip_prefix(input, S_vtl2_eq)[1])
        /\ starts_with(input, S_absolute_eq) =>
              IF IsOk(parse_number(strip_prefix(input, S_absolute_eq)[1]))
              THEN result = Ok([tag |-> "Absolute",
                                addr |-> parse_number(strip_prefix(input, S_absolute_eq)[1]).val])
              ELSE IsErr(result, "unknown VTL2 relocation type: {0}")
        /\ ~(\/ input = S_disable
             \/ starts_with(input, S_auto_eq)
             \/ starts_with(input, S_vtl2_eq)
             \/ starts_with(input, S_absolute_eq))
              => result = ErrWith("unknown VTL2 relocation type: {0}", input)
        /\ RelocationValuesRead

\* vtl2=filesizes, which is not filesize and no size, has been rejected
C22_Witness ==
    /\ RelocationDone
    /\ input = S_vtl2_eq \o S_filesize \o <<"s">>
    /\ IsErr(result, "unknown VTL2 relocation type: {0}")

-----------------------------------------------------------------------------
(* Concurrent parses: claims *)

\* thread t has made its call of DiskCliKind::from_str
ThreadCalled(t) == op = "with_env_var" /\ pc[t] \in {"called", "done"}

\* C23: the result of a parse depends on its input and on the cache root
\* given to that call only. When several threads each set their own cache
\* root, parse an autocache: spec and clear the root, every thread's parse
\* succeeds and records the thread's own root as cache_path, whatever the
\* other threads do in between.
C23_ParseUsesOwnCacheRoot ==
    \A t \in Threads :
        ThreadCalled(t) /\ starts_with(input[t], S_autocache \o <<":">>) =>
            /\ IsOk(result[t])
            /\ result[t].val.cache_path = ThreadCacheRoot(t)

\* what the code guarantees: an autocache: parse records the root some thread
\* has set, or fails because the variable was not set when it was read
C23_CacheRootOfSomeThread ==
    \A t \in Threads :
        ThreadCalled(t) /\ starts_with(input[t], S_autocache \o <<":">>) =>
            \/ IsOk(result[t]) /\ \E u \in Threads : result[t].val.cache_path = ThreadCacheRoot(u)
            \/ IsErr(result[t], "must set cache path via OPENVMM_AUTO_CACHE_PATH")

\* a thread's autocache: parse has recorded the cache root of another thread
C23_Witness ==
    \E t \in Threads, u \in Threads :
        /\ t # u
        /\ ThreadCalled(t)
        /\ starts_with(input[t], S_autocache \o <<":">>)
        /\ IsOk(result[t])
        /\ result[t].val.cache_path = ThreadCacheRoot(u)

-----------------------------------------------------------------------------
(* Key/value lists: claims *)

\* the comma-separated tokens of the argument
SerialTokens == split(input, ",")

\* C24: the list parser cuts each comma-separated token at its first '=' only:
\* the key is the text before it and the value all of the text after it, also
\* when that text holds further '=' (file=a=b has the value a=b); a token
\* without '=' gives the key without a value. The serial grammar so binds
\* file=<v> to the file v.
C24_ValueIsAllAfterFirstEq ==
    SerialDone =>
        /\ Len(SerialPairsOf) = Len(SerialTokens)
        /\ \A i \in 1..Len(SerialTokens) :
              IF find(SerialTokens[i], "=", 1) = 0
              THEN SerialPairsOf[i] = [key |-> SerialTokens[i], value |-> None]
              ELSE SerialPairsOf[i] =
                      [key |-> split_once(SerialTokens[i], "=")[1][1],
                       value |-> Some(split_once(SerialTokens[i], "=")[1][2])]
        /\ (SerialFirstKey = S_file /\ find(SerialTokens[1], "=", 1) # 0) =>
              result = Ok([tag |-> "File", path |-> split_once(SerialTokens[1], "=")[1][2]])

\* what the code does: the value is the text between the first and the second
\* '=' of the token, and what follows a second '=' is dropped
C24_ValueEndsAtSecondEq ==
    SerialDone =>
        /\ Len(SerialPairsOf) = Len(SerialTokens)
        /\ \A i \in 1..Len(SerialTokens) :
              IF find(SerialTokens[i], "=", 1) = 0
              THEN SerialPairsOf[i] = [key |-> SerialTokens[i], value |-> None]
              ELSE LET after == split_once(SerialTokens[i], "=")[1][2]
                   IN  SerialPairsOf[i] =
                          [key |-> split_once(SerialTokens[i], "=")[1][1],
                           value |-> Some(IF find(after, "=", 1) = 0 THEN after
                                          ELSE split_once(after, "=")[1][1])]

\* file=a=b has been parsed to the file a
C24_Witness ==
    /\ SerialDone
    /\ SerialTokens[1] = S_file \o <<"=", "a", "=", "b">>
    /\ result = Ok([tag |-> "File", path |-> <<"a">>])

-----------------------------------------------------------------------------
(* NIC options: claims *)

\* the option prefix of the argument, and the text after it
NicPrefix == NicOptionPrefix(split(input, ":"))

NicRest == Join(SubSeq(split(input, ":"), Len(NicPrefix) + 1, Len(split(input, ":"))), <<":">>)

\* the queue count of the last queues=<n> of the prefix
NicLastQueues ==
    LET counts == {i \in 1..Len(NicPrefix) : starts_with(NicPrefix[i], S_queues \o <<"=">>)}
    IN  IF counts = {} THEN None
        ELSE Some(parse_u16(strip_prefix(
                      NicPrefix[CHOOSE i \in counts : \A j \in counts : j <= i],
                      S_queues \o <<"=">>)[1]).val)

\* C25: the NIC parser consumes the leading ':'-terminated prefixes vtl2, uh
\* and queues=<n>, in any order and number: vtl2 sets vtl to Vtl2, uh sets
\* underhill, queues=<n> sets max_queues to n when n is a u16 (the last one
\* wins) and fails with the queue-count error otherwise. At the first prefix
\* that is none of these it stops and hands all the remaining text to the
\* endpoint grammar, so that option words after the endpoint keyword are no
\* options, and the fields never named keep Vtl0, no underhill, no max_queues.
C25_NicOptionPrefixes ==
    NicDone =>
        /\ ~QueueCountsParse(NicPrefix) => result = Err("failed to parse queue count")
        /\ (QueueCountsParse(NicPrefix) /\ ~({S_uh, S_vtl2} \subseteq Range(NicPrefix))) =>
              IF IsOk(EndpointConfigCli_from_str(NicRest))
              THEN result =
                      Ok([vtl |-> IF S_vtl2 \in Range(NicPrefix) THEN "Vtl2" ELSE "Vtl0",
                          underhill |-> S_uh \in Range(NicPrefix),
                          max_queues |-> NicLastQueues,
                          endpoint |-> EndpointConfigCli_from_str(NicRest).val])
              ELSE result = EndpointConfigCli_from_str(NicRest)
        /\ input = S_queues \o <<"=", "4", ":">> \o S_none =>
              result = Ok([vtl |-> "Vtl0", underhill |-> FALSE, max_queues |-> Some(4),
                           endpoint |-> [tag |-> "None"]])

\* queues=4:queues=7:consomme:vtl2 has been parsed: 7 queues, and the vtl2
\* after the endpoint keyword is the cidr and no option
C25_Witness ==
    /\ NicDone
    /\ input = Join(<<S_queues \o <<"=", "4">>, S_queues \o <<"=", "7">>, S_consomme, S_vtl2>>, <<":">>)
    /\ result = Ok([vtl |-> "Vtl0", underhill |-> FALSE, max_queues |-> Some(7),
                    endpoint |-> [tag |-> "Consomme", cidr |-> Some(S_vtl2)]])

-----------------------------------------------------------------------------
(* IDE options: claims *)

IdeDone == pc = "done" /\ op = "IdeDiskCli"

\* the keys of the options of the argument, in their order
IdeKeys == [i \in 1..(Len(split(input, ",")) - 1) |-> split(split(input, ",")[i + 1], "=")[1]]

\* the number the last key of the list that is one of zero and one stands
\* for: 0 for zero, 1 for one, and nothing when neither is in the list
LastOf(keys, zero, one) ==
    LET at == {i \in 1..Len(keys) : keys[i] \in {zero, one}}
    IN  IF at = {} THEN None
        ELSE IF keys[CHOOSE i \in at : \A j \in at : j <= i] = zero THEN Some(0)
        ELSE Some(1)

\* C26: the IDE parser folds its options left to right. channel is absent
\* when neither p nor s is given and otherwise 0 or 1 after the last of p and
\* s; device is absent when neither 0 nor 1 is given and otherwise the last of
\* them; both p and s, or both 0 and 1, are accepted without error; a key
\* outside ro, dvd, p, s, 0, 1 fails with the unknown-option error.
C26_IdeLastOptionWins ==
    (IdeDone /\ IsOk(DiskCliKind_from_str(split(input, ",")[1]))) =>
        IF Range(IdeKeys) \subseteq {S_ro, S_dvd, <<"p">>, <<"s">>, <<"0">>, <<"1">>}
        THEN /\ IsOk(result)
             /\ result.val.channel = LastOf(IdeKeys, <<"p">>, <<"s">>)
             /\ result.val.device = LastOf(IdeKeys, <<"0">>, <<"1">>)
        ELSE IsErr(result, "unknown option")

\* file:a,s,1,p has been parsed: the primary channel, given last, and device 1
C26_Witness ==
    /\ IdeDone
    /\ input = Join(<<S_file \o <<":", "a">>, <<"s">>, <<"1">>, <<"p">>>>, <<",">>)
    /\ IsOk(result)
    /\ result.val.channel = Some(0)
    /\ result.val.device = Some(1)

-----------------------------------------------------------------------------
(* Recursion of the disk grammar: claims *)

\* the number of ':' in the argument
Colons == Cardinality({i \in 1..Len(input) : input[i] = ":"})

\* the number of wrappers around the leaf of a tree
RECURSIVE NestingDepth(_)
NestingDepth(disk) ==
    IF "disk" \in DOMAIN disk THEN 1 + NestingDepth(disk.disk) ELSE 0

\* the child of a wrapper is the parse of the text after some ':' of the
\* argument, a strict suffix of it
ChildFromStrictSuffix ==
    "disk" \in DOMAIN result.val =>
        \E k \in 2..Len(input) :
            /\ input[k] = ":"
            /\ DiskCliKind_from_str(SubSeq(input, k + 1, Len(input))) = Ok(result.val.disk)

\* C27: DiskCliKind::from_str returns on every input (the call about to be
\* made has an outcome); each recursive call is
\* made on a strict suffix of the argument, a keyword and a ':' at least
\* having been consumed, so that the nesting depth of the result never
\* exceeds the number of ':' in the argument.
C27_ReturnsWithBoundedDepth ==
    /\ (pc = "start" /\ op = "DiskCliKind") =>
          DiskCliKind_from_str(input).kind \in {"Ok", "Err", "Panic"}
    /\ (DiskDone /\ IsOk(result)) =>
          /\ NestingDepth(result.val) <= Colons
          /\ ChildFromStrictSuffix

\* memdiff:a, with one ':', has been parsed to a tree of depth one
C27_Witness ==
    /\ DiskDone
    /\ input = S_memdiff \o <<":", "a">>
    /\ IsOk(result)
    /\ NestingDepth(result.val) = 1
    /\ Colons = 1

-----------------------------------------------------------------------------
(* Failures of nested disk specs: claims *)

NestedDone ==
    /\ pc = "done"
    /\ op \in {"DiskCliKind", "DiskCli", "IdeDiskCli", "FloppyDiskCli", "VmgsCli"}

\* the chains of wrapper prefixes the argument starts with
WrapperChains ==
    {ws \in SeqsUpTo(DiskWrappers, MaxWrappers) :
        ws # <<>> /\ starts_with(input, Concat(ws))}

\* the text a chain of wrappers hands to the innermost recursive parse
ChildText(ws) == SubSeq(input, Len(Concat(ws)) + 1, Len(input))

\* the part of an attachment argument in front of the first ','
DiskSpecSegment == split(input, ",")[1]

\* the disk trees inside a tree, itself included
RECURSIVE Subtrees(_)
Subtrees(disk) ==
    {disk} \cup (IF "disk" \in DOMAIN disk THEN Subtrees(disk.disk) ELSE {})

\* a failed child is never replaced: the caller fails too, with the child's
\* error unless it had failed before parsing the child
ChildFailurePassedOn(child) ==
    child.kind # "Ok" =>
        /\ result.kind # "Ok"
        /\ child.kind = "Err" => result.kind = "Err"

\* C28: when a child at any depth of a chain of wrappers fails to parse, the
\* top-level call fails too; an accepted tree holds the parse of every child
\* whole; an attachment parser returns no attachment when its disk spec
\* segment fails.
C28_NestedFailureFailsAll ==
    /\ DiskDone =>
          \A ws \in WrapperChains :
              LET passed(child) ==
                      /\ ChildFailurePassedOn(child)
                      /\ IsOk(result) =>
                            /\ IsOk(child)
                            /\ child.val \in Subtrees(result.val)
                            /\ NestingDepth(result.val) =
                                   Len(ws) + NestingDepth(child.val)
              IN  passed(DiskCliKind_from_str(ChildText(ws)))
    /\ (NestedDone /\ ~DiskDone /\ input # <<>>) =>
          LET passed(child) ==
                  /\ ChildFailurePassedOn(child)
                  /\ IsOk(result) => (IsOk(child) /\ result.val.kind = child.val)
          IN  passed(DiskCliKind_from_str(DiskSpecSegment))

\* memdiff:prwrap:mem:x has been rejected because of its innermost child
C28_Witness ==
    /\ DiskDone
    /\ input = S_memdiff \o <<":">> \o S_prwrap \o <<":">> \o S_mem \o <<":", "x">>
    /\ result.kind = "Err"
    /\ DiskCliKind_from_str(S_mem \o <<":", "x">>).kind = "Err"

-----------------------------------------------------------------------------
(* The delay wrapper: claims *)

\* the argument begins with the keyword of the DelayDiskWrapper comment
DelayInput == starts_with(input, S_delay \o <<":">>)

-----------------------------------------------------------------------------
(* Overflow of a size: claims *)

\* numeral x multiplier of the size text, as a natural number
SizeProduct ==
    WideTimes1024(NumeralValue(Unsigned(MemoryNumeral(input)), 10),
                  UnitPower(WithoutB(input)))

SizeIsNumeral == IsNumeral(Unsigned(MemoryNumeral(input)), 10)

\* C30 as stated: a value returned by parse_memory is the mathematical product
\* numeral x multiplier, and a product that does not fit in 64 bits is
\* reported as an error, never returned modulo 2^64.
C30_OverflowIsAnError ==
    MemoryDone =>
        /\ IsOk(result) => Wide(result.val) = SizeProduct
        /\ (SizeIsNumeral /\ ~FitsU64(SizeProduct)) => result.kind = "Err"

\* what the code does: a product that fits is returned as it is; one that does
\* not is an error only when the numeral alone is too large for a u64, and
\* otherwise a panic in a build with overflow checks and the product modulo
\* 2^64 in a build without
C30_OverflowPanicsOrWraps ==
    (MemoryDone /\ SizeIsNumeral) =>
        IF FitsU64(SizeProduct)
            THEN IsOk(result) /\ Wide(result.val) = SizeProduct
        ELSE IF ~FitsU64(NumeralValue(Unsigned(MemoryNumeral(input)), 10))
            THEN result.kind = "Err"
        ELSE IF overflow_checks
            THEN result.kind = "Panic"
        ELSE IsOk(result) /\ result.val = SubSeq(SizeProduct, 1, 8)

\* 16777216T, 2^64 bytes, has been parsed without overflow checks: zero
C30_Witness ==
    /\ MemoryDone
    /\ input = <<"1", "6", "7", "7", "7", "2", "1", "6", "T">>
    /\ ~overflow_checks
    /\ result = Ok(U64(0))

====
